---- MODULE Spec2Model ----
(***************************************************************************)
(* State-machine model of the WiChain LAN networking core                  *)
(* (wichain-network/src/lib.rs): UDP discovery, the peer registry, the TCP *)
(* connection table, the receive loop and the send path.                   *)
(*                                                                         *)
(* Two nodes, "A" and "B", run the code on hosts of the same name and use  *)
(* the same discovery port.  A third host, "C", stands for everything else *)
(* on the LAN: it can put any datagram on the wire.                        *)
(*                                                                         *)
(* Time is kept as the age of a registry entry (now - last_seen), in       *)
(* seconds; Tick lets time pass.  An Option is a tuple: <<>> is None and   *)
(* <<x>> is Some(x).  A HashMap is a function whose DOMAIN is its key set. *)
(***************************************************************************)
EXTENDS Integers, Sequences, FiniteSets, TLC

\* ---------------------------------------------------------------- constants
PEER_STALE_SECS == 30
MAX_DGRAM == 8192
TCP_PORT_OFFSET == 1000
HARDCODED_UDP_PORT == 60000

\* ------------------------------------------------------------------- bounds
MaxEnv == 2           \* datagrams from host C, set_alias calls, broadcast ticks
MaxSend == 1          \* send_message calls started, all nodes together
MaxNet == 4           \* datagrams in flight
MaxStreams == 1       \* TCP streams ever opened
MaxPair == 2          \* TCP streams ever opened where two sessions of one peer meet
MaxFrames == 3        \* lines host C writes on a stream it opened
MaxStr == 2           \* characters in a string field taken through serde_json
MaxChain == 3         \* blocks appended to a chain
MaxWriters == 3       \* send_via_tcp calls running at once on one session
FrameChunks == 2      \* pieces in which write_all hands one frame to the socket

Nodes == {"A", "B"}
ExtHost == "C"
Ids == {"A", "B", "C"}
TickSteps == {30, 31}

None == <<>>
Some(x) == <<x>>

VARIABLES
    port,      \* the configured discovery port (NetworkNode.port), same on every node
    alias,     \* alias[n]: NetworkNode.alias
    peers,     \* peers[n]: NetworkNode.peers, id -> PeerEntry
    conns,     \* conns[n]: TcpConnectionManager.connections, id -> TcpConnection
    plock,     \* plock[n]: the peers mutex is held across an await by the send call
    streams,   \* the TCP streams opened so far, by stream id
    net,       \* datagrams in flight to a bound discovery socket
    inbox,     \* inbox[n]: the DirectBlock messages forwarded to the application channel (tx)
    call,      \* call[n]: the send_message call of node n, and what it has done
    out,       \* the datagrams the last step handed to a UDP socket, in order
    seen,      \* seen[n]: the sender ids of the datagrams n has decoded
    started,   \* started[n]: start() has run on node n
    left,      \* what is left of each bound; left.streams: how many TCP streams may be opened in all
    boot,      \* boot[n]: the start() call of node n: where it is, what it bound and spawned
    chain,     \* a Blockchain value (wichain-blockchain), <<>> where none is under study
    codec,     \* a message taken through serde_json, <<>> where none is under study
    bcast,     \* bcast[n]: where periodic_broadcast of n is in its tick, and its alias_now
    trust,     \* a TrustManager value (wichain-core), <<>> where none is under study
    wr,        \* concurrent send_via_tcp calls on one session, <<>> where none is under study
    chan,      \* the bounded channel behind tx and its senders, <<>> where none is under study
    lk         \* the locks of a node and the calls that take them, <<>> where none is under study

vars == <<port, alias, peers, conns, plock, streams, net, inbox, call, out,
          seen, started, left, boot, chain, codec, bcast, trust, wr, chan, lk>>

\* ------------------------------------------------------------ addresses
MainAddr(h) == <<h, port>>
EphAddr(h) == <<h, 49152>>
BroadcastTargets == {MainAddr(n) : n \in {m \in Nodes : started[m]}}
PubKey(n) == "pk" \o n

\* ------------------------------------------------------- NetworkMessage
Peer(id, al, pk) == [type |-> "Peer", id |-> id, alias |-> al, pubkey |-> pk]
Ping(id, al) == [type |-> "Ping", id |-> id, alias |-> al]
Pong(id, al) == [type |-> "Pong", id |-> id, alias |-> al]
Block(b) == [type |-> "Block", block_json |-> b]
DirectBlock(f, t, p) == [type |-> "DirectBlock", from |-> f, to |-> t, payload_json |-> p]
TcpConnectionRequest(f, al, tp) ==
    [type |-> "TcpConnectionRequest", from |-> f, from_alias |-> al, tcp_port |-> tp]
TcpConnectionResponse(f, t, acc, tp) ==
    [type |-> "TcpConnectionResponse", from |-> f, to |-> t, accepted |-> acc, tcp_port |-> tp]
TcpKeepalive(f) == [type |-> "TcpKeepalive", from |-> f]
TcpConnectionTest(f, ts) == [type |-> "TcpConnectionTest", from |-> f, timestamp |-> ts]
TcpConnectionTestResponse(f, t, ts, rt) ==
    [type |-> "TcpConnectionTestResponse", from |-> f, to |-> t, timestamp |-> ts,
     response_time_ms |-> rt]
TcpHandshake(f, al, pk) ==
    [type |-> "TcpHandshake", from |-> f, from_alias |-> al, pubkey |-> pk]

Tags == {"Peer", "Ping", "Pong", "Block", "DirectBlock", "TcpConnectionRequest",
         "TcpConnectionResponse", "TcpKeepalive", "TcpConnectionTest",
         "TcpConnectionTestResponse", "TcpHandshake"}

\* The id a message claims to come from (None for the legacy Block).
SenderId(m) ==
    IF m.type \in {"Peer", "Ping", "Pong"} THEN Some(m.id)
    ELSE IF m.type = "Block" THEN None
    ELSE Some(m.from)

\* ---------------------------------------------------------- wire encoding
PayloadLen(p) == IF p = "big" THEN 9000 ELSE 5

\* serde_json::to_vec: the tagged JSON object; its length is what matters to
\* the receive buffer.
EncLen(m) == 64 + (IF m.type = "DirectBlock" THEN PayloadLen(m.payload_json) ELSE 0)
Encode(m) == [tag |-> m.type, body |-> m, len |-> EncLen(m)]
Garbage == [tag |-> "?", body |-> <<>>, len |-> 8]

\* recv_from fills a MAX_DGRAM buffer (a longer datagram is cut), then
\* serde_json::from_slice parses what was read.
Decode(b) ==
    IF b.len <= MAX_DGRAM /\ b.tag \in Tags THEN Some(b.body) ELSE None

Dgram(m, src, dst) == [bytes |-> Encode(m), src |-> src, dst |-> dst]

\* What tx.send(msg) adds to the part of the channel the model keeps.
Chat(m) == IF m.type = "DirectBlock" THEN {m} ELSE {}

\* ------------------------------------------------------------- HashMap
Put(m, k, v) == [x \in DOMAIN m \cup {k} |-> IF x = k THEN v ELSE m[x]]
Remove(m, k) == [x \in DOMAIN m \ {k} |-> m[x]]
EmptyMap == [x \in {} |-> 0]

\* ------------------------------------------------------------ PeerRegistry
PeerEntry(al, pk, addr) ==
    [alias |-> al, pubkey |-> pk, age |-> 0, last_addr |-> addr, tcp_port |-> None]

\* Variant: an entry that exists keeps its alias, public key and address;
\* only its age is refreshed.
update_peer_insert_only(map, id, al, pk, addr, tcp_port) ==
    IF id \in DOMAIN map THEN [map EXCEPT ![id].age = 0]
    ELSE Put(map, id, PeerEntry(al, pk, addr))

update_peer_with_tcp_port(map, id, al, pk, addr, tcp_port) ==
    LET entry == IF id \in DOMAIN map THEN map[id] ELSE PeerEntry(al, pk, addr)
    IN  Put(map, id,
            [entry EXCEPT !.alias = al, !.pubkey = pk, !.age = 0, !.last_addr = addr,
                          !.tcp_port = IF tcp_port # None THEN tcp_port ELSE @])

update_peer(map, id, al, pk, addr) ==
    update_peer_with_tcp_port(map, id, al, pk, addr, None)

maybe_gc_stale(map) ==
    [id \in {i \in DOMAIN map : map[i].age <= PEER_STALE_SECS} |-> map[id]]

list_peers(n) == DOMAIN peers[n]

has_tcp_connection(n, p) == p \in DOMAIN conns[n] /\ conns[n][p].is_connected

\* ------------------------------------------------------------------ calls
IdleCall == [pc |-> "idle"]

\* ------------------------------------------------------------------- Init
\* periodic_broadcast between two awaits: about to read the alias
\* ("sleep"), or holding alias_now with the Peer ("announce") or the Ping
\* ("ping") still to send.
Sleeping == [pc |-> "sleep", alias_now |-> ""]

InitNode ==
    /\ alias = [n \in Nodes |-> "old"]
    /\ peers = [n \in Nodes |-> EmptyMap]
    /\ conns = [n \in Nodes |-> EmptyMap]
    /\ plock = [n \in Nodes |-> FALSE]
    /\ streams = <<>>
    /\ net = {}
    /\ inbox = [n \in Nodes |-> {}]
    /\ call = [n \in Nodes |-> IdleCall]
    /\ out = <<>>
    /\ seen = [n \in Nodes |-> {}]
    /\ bcast = [n \in Nodes |-> Sleeping]
    /\ trust = <<>>
    /\ wr = <<>>
    /\ chan = <<>>
    /\ lk = <<>>

\* start() of a node: not called yet, or returned after binding the wildcard
\* address and spawning its three tasks.
Tasks == {"recv_loop", "periodic_broadcast", "tcp_listener"}
NotCalled == [pc |-> "new", bound |-> "none", tasks |-> {}, ret |-> "none"]
Booted == [pc |-> "returned", bound |-> "wildcard", tasks |-> Tasks, ret |-> "unit"]

\* Node A alone, started, on a LAN where host C sends what it likes.
Init ==
    /\ InitNode
    /\ port = 7000
    /\ started = [n \in Nodes |-> n = "A"]
    /\ boot = [n \in Nodes |-> IF n = "A" THEN Booted ELSE NotCalled]
    /\ left = [env |-> MaxEnv, send |-> MaxSend, streams |-> MaxStreams]
    /\ chain = <<>>
    /\ codec = <<>>

\* ------------------------------------------------------------ the network
BcastAddr == <<"255.255.255.255", port>>

\* Where a datagram handed to a socket arrives: a broadcast reaches the
\* discovery socket of every node (the sender's too); a unicast reaches a
\* socket only if a discovery socket is bound at its destination.  The
\* sockets bound to port 0 by ping_now, send_direct_block,
\* request_tcp_connection and the response branch of recv_loop are never
\* read from.
Fanout(d) ==
    IF d.dst = BcastAddr THEN {[d EXCEPT !.dst = a] : a \in BroadcastTargets}
    ELSE IF d.dst \in BroadcastTargets THEN {d}
    ELSE {}

Emit(ds) == net \cup UNION {Fanout(ds[i]) : i \in 1..Len(ds)}

Room(ds) == Cardinality(Emit(ds)) <= MaxNet

\* ------------------------------------------------------------- TCP streams
\* A stream: its two ends, the frames written and not yet read, whether each
\* end still holds its handle, and the local state of the reader task that
\* the listener of `srv` spawned for it (rpc, rpeer = peer_id, rhs =
\* handshake_completed).  Host C reads nothing the model looks at.  `sent`
\* keeps every line the client end has written, in order.
\* Variant: the reader task takes the connecting host for the peer from the
\* start.
NewStreamKnownPeer(cli, srv, frames) ==
    [cli |-> cli, srv |-> srv, wire |-> frames, sent |-> frames,
     cliOpen |-> TRUE, srvOpen |-> TRUE,
     rpc |-> IF srv \in Nodes THEN "read" ELSE "ext", rpeer |-> Some(cli), rhs |-> FALSE]

NewStream(cli, srv, frames) ==
    [cli |-> cli, srv |-> srv, wire |-> frames, sent |-> frames,
     cliOpen |-> TRUE, srvOpen |-> TRUE,
     rpc |-> IF srv \in Nodes THEN "read" ELSE "ext", rpeer |-> None, rhs |-> FALSE]

TcpConnection(sid, side) ==
    [stream |-> sid, side |-> side, is_connected |-> TRUE, message_count |-> 0,
     handshake_completed |-> TRUE]

\* The listener of node h is bound to port + TCP_PORT_OFFSET
\* (start_tcp_listener_static); host C may listen anywhere.
CanConnect(h, p) ==
    IF h \in Nodes THEN started[h] /\ p = port + TCP_PORT_OFFSET ELSE TRUE

\* Dropping a TcpConnection drops its stream handle, which closes that end.
CloseHandle(strs, sid, side) ==
    [strs EXCEPT ![sid] = IF side = "cli" THEN [@ EXCEPT !.cliOpen = FALSE]
                          ELSE [@ EXCEPT !.srvOpen = FALSE]]

\* Variant: the entry an insert replaces stays alive, its stream open.
KeepReplaced(strs, n, pid) == strs

\* connections.insert(pid, conn): the entry it replaces, if any, is dropped.
DropReplaced(strs, n, pid) ==
    IF pid \in DOMAIN conns[n]
    THEN CloseHandle(strs, conns[n][pid].stream, conns[n][pid].side)
    ELSE strs

\* --------------------------------------------------------------- recv_loop
\* Variant: a DirectBlock upserts the id it is addressed to.
UpsertIdAddressee(msg) ==
    IF msg.type \in {"Peer", "Ping", "Pong"} THEN msg.id
    ELSE IF msg.type = "DirectBlock" THEN msg.to ELSE msg.from

\* The id under which the match arm of recv_loop upserts (Block upserts
\* nothing).
UpsertId(msg) == IF msg.type \in {"Peer", "Ping", "Pong"} THEN msg.id ELSE msg.from

\* Variant: the legacy arm upserts an entry too, under the blob it carries.
LegacyArmUpserts(map, msg, src) ==
    update_peer(map, msg.block_json, msg.block_json, msg.block_json, src)

\* `NetworkMessage::Block { .. } => { /* legacy ignore */ }`: the arm is
\* empty.
LegacyArm(map, msg, src) == map

\* The registry after the match arm of recv_loop for msg, received from src.
RegistryAfter(map, msg, src) ==
    CASE msg.type = "Peer" -> update_peer(map, UpsertId(msg), msg.alias, msg.pubkey, src)
      [] msg.type \in {"Ping", "Pong"} ->
            update_peer(map, UpsertId(msg), msg.alias, msg.id, src)
      [] msg.type = "TcpConnectionRequest" ->
            update_peer_with_tcp_port(map, UpsertId(msg), msg.from_alias, msg.from, src,
                                      Some(msg.tcp_port))
      [] msg.type = "TcpConnectionResponse" ->
            update_peer_with_tcp_port(map, UpsertId(msg), msg.from, msg.from, src,
                                      Some(msg.tcp_port))
      [] msg.type = "TcpHandshake" ->
            update_peer(map, UpsertId(msg), msg.from_alias, msg.pubkey, src)
      [] msg.type = "Block" -> LegacyArm(map, msg, src)
      [] OTHER -> update_peer(map, UpsertId(msg), msg.from, msg.from, src)

\* Variant: the Pong is broadcast instead of sent to the Ping's source.
RepliesToBroadcast(n, msg, src) ==
    CASE msg.type = "Ping" -> <<Dgram(Pong(n, alias[n]), MainAddr(n), BcastAddr)>>
      [] OTHER -> <<>>

\* The datagrams the match arm sends when its socket is there: a Pong from
\* the discovery socket, a TcpConnectionResponse from a socket bound to
\* port 0.  Send errors are ignored.
RepliesTo(n, msg, src) ==
    CASE msg.type = "Ping" -> <<Dgram(Pong(n, alias[n]), MainAddr(n), src)>>
      [] msg.type = "TcpConnectionRequest" ->
            <<Dgram(TcpConnectionResponse(n, msg.from, TRUE,
                                          HARDCODED_UDP_PORT + TCP_PORT_OFFSET),
                    EphAddr(n), src)>>
      [] OTHER -> <<>>

\* Variant: the response leaves whether or not the reply socket was bound.
RepliesAlways(n, msg, src, bok) == RepliesTo(n, msg, src)

\* `if let Ok(socket) = UdpSocket::bind("0.0.0.0:0")`: the response arm of
\* the request sends only when its own socket could be bound (bok); the Pong
\* goes out on the discovery socket, which is there.
Replies(n, msg, src, bok) ==
    IF msg.type = "TcpConnectionRequest" /\ ~bok THEN <<>> ELSE RepliesTo(n, msg, src)

\* The outcomes of the bind for datagram d: it is attempted for a
\* TcpConnectionRequest only.
ReplyBind(d) ==
    IF Decode(d.bytes) # None /\ Decode(d.bytes)[1].type = "TcpConnectionRequest"
    THEN BOOLEAN ELSE {TRUE}

Dials(msg) == msg.type = "TcpConnectionResponse" /\ msg.accepted

\* Variant: the stale sweep runs after a datagram that did not parse too.
UndecodableSweeps(map) == maybe_gc_stale(map)

\* `Err(_) => continue`: the iteration ends before the dispatch, the forward
\* and the stale sweep, so the registry is as it was.
Undecodable(map) == map

\* One iteration of recv_loop on datagram d.  cok: the TCP connect of the
\* response arm succeeds; hsok: its handshake write succeeds.
RecvLoop(n, d, cok, hsok) ==
    /\ started[n]
    /\ d.dst = MainAddr(n)
    /\ \E bok \in ReplyBind(d) :
          LET sent == IF Decode(d.bytes) = None THEN <<>>
                      ELSE Replies(n, Decode(d.bytes)[1], d.src, bok)
          IN  /\ out' = sent
              /\ net' = (net \ {d}) \cup UNION {Fanout(sent[i]) : i \in 1..Len(sent)}
    /\ IF Decode(d.bytes) = None
       THEN /\ ~cok /\ ~hsok
            /\ peers' = [peers EXCEPT ![n] = Undecodable(@)]
            /\ UNCHANGED <<conns, streams, inbox, seen>>
       ELSE LET msg == Decode(d.bytes)[1]
                src == d.src
                dial == Dials(msg) /\ cok
            IN  /\ ~plock[n]
                /\ cok => /\ Dials(msg)
                          /\ CanConnect(src[1], msg.tcp_port)
                          /\ Len(streams) < left.streams
                /\ hsok => cok
                /\ peers' = [peers EXCEPT ![n] = maybe_gc_stale(RegistryAfter(@, msg, src))]
                /\ seen' = [seen EXCEPT ![n] =
                               @ \cup {SenderId(msg)[i] : i \in 1..Len(SenderId(msg))}]
                /\ inbox' = [inbox EXCEPT ![n] = @ \cup Chat(msg)]
                /\ IF dial
                   THEN /\ streams' = Append(DropReplaced(streams, n, msg.from),
                               NewStream(n, src[1],
                                   IF hsok THEN <<TcpHandshake(n, alias[n], PubKey(n))>>
                                   ELSE <<>>))
                        /\ conns' = [conns EXCEPT ![n] =
                               Put(@, msg.from, TcpConnection(Len(streams) + 1, "cli"))]
                   ELSE UNCHANGED <<conns, streams>>
    /\ UNCHANGED <<lk, chan, wr, trust, bcast, codec, chain, boot, port, alias, plock, call, started>>

\* recv_loop takes a datagram that reached the discovery socket of n.
Recv(n) ==
    /\ UNCHANGED left
    /\ \E d \in net, cok \in BOOLEAN, hsok \in BOOLEAN : RecvLoop(n, d, cok, hsok)

\* ------------------------------------------------------ periodic_broadcast
\* Variant: the two datagrams go to the node's own address only.
BroadcastMsgsToSelf(n, src) ==
    <<Dgram(Peer(n, alias[n], PubKey(n)), src, MainAddr(n)),
      Dgram(Ping(n, alias[n]), src, MainAddr(n))>>

BroadcastMsgs(n, src) ==
    <<Dgram(Peer(n, alias[n], PubKey(n)), src, BcastAddr),
      Dgram(Ping(n, alias[n]), src, BcastAddr)>>

\* One tick of periodic_broadcast: Peer then Ping, from the discovery
\* socket, with the alias read at this tick.
BroadcastSend(n) ==
    /\ started[n]
    /\ net' = Emit(BroadcastMsgs(n, MainAddr(n)))
    /\ out' = BroadcastMsgs(n, MainAddr(n))
    /\ UNCHANGED <<lk, chan, wr, trust, bcast, codec, chain, boot, port, alias, peers, conns, plock, streams, inbox, call, seen, started>>

BroadcastTick(n) == Room(BroadcastMsgs(n, MainAddr(n))) /\ BroadcastSend(n)

periodic_broadcast(n) ==
    /\ left.env > 0
    /\ left' = [left EXCEPT !.env = @ - 1]
    /\ BroadcastTick(n)

\* ---------------------------------------------------- set_alias / ping_now
\* set_alias stores the alias, then ping_now sends Peer and Ping from a
\* socket bound to port 0; k is how many of the two sends succeed before the
\* first error (an error is logged by set_alias).
set_alias(n, new, k) ==
    /\ started[n]
    /\ left.env > 0
    /\ left' = [left EXCEPT !.env = @ - 1]
    /\ alias' = [alias EXCEPT ![n] = new]
    /\ LET all == <<Dgram(Peer(n, new, PubKey(n)), EphAddr(n), BcastAddr),
                    Dgram(Ping(n, new), EphAddr(n), BcastAddr)>>
           sent == SubSeq(all, 1, k)
       IN  /\ Room(sent)
           /\ net' = Emit(sent)
           /\ out' = sent
    /\ UNCHANGED <<lk, chan, wr, trust, bcast, codec, chain, boot, port, peers, conns, plock, streams, inbox, call, seen, started>>

\* ------------------------------------- periodic_broadcast, await by await
\* The tick of periodic_broadcast as the scheduler sees it: the alias is
\* read once under its lock, then the Peer and the Ping are sent with that
\* copy, each send an await of its own at which other tasks run.
BroadcastRead(n) ==
    /\ started[n]
    /\ bcast[n].pc = "sleep"
    /\ bcast' = [bcast EXCEPT ![n] = [pc |-> "announce", alias_now |-> alias[n]]]
    /\ out' = <<>>
    /\ UNCHANGED <<lk, chan, wr, trust, codec, chain, boot, port, alias, peers, conns, plock, streams, net, inbox, call, seen, started, left>>

\* Variant: the copy of the alias is taken again before each send.
TickAliasFresh(n) == alias[n]

TickAlias(n) == bcast[n].alias_now

BroadcastAnnounce(n) ==
    /\ bcast[n].pc = "announce"
    /\ bcast' = [bcast EXCEPT ![n].pc = "ping"]
    /\ net' = Emit(<<Dgram(Peer(n, TickAlias(n), PubKey(n)), MainAddr(n), BcastAddr)>>)
    /\ out' = <<Dgram(Peer(n, TickAlias(n), PubKey(n)), MainAddr(n), BcastAddr)>>
    /\ UNCHANGED <<lk, chan, wr, trust, codec, chain, boot, port, alias, peers, conns, plock, streams, inbox, call, seen, started, left>>

BroadcastPing(n) ==
    /\ bcast[n].pc = "ping"
    /\ bcast' = [bcast EXCEPT ![n] = Sleeping]
    /\ net' = Emit(<<Dgram(Ping(n, TickAlias(n)), MainAddr(n), BcastAddr)>>)
    /\ out' = <<Dgram(Ping(n, TickAlias(n)), MainAddr(n), BcastAddr)>>
    /\ UNCHANGED <<lk, chan, wr, trust, codec, chain, boot, port, alias, peers, conns, plock, streams, inbox, call, seen, started, left>>

\* ------------------------------------------------------------ environment
Min(a, b) == IF a < b THEN a ELSE b

TickBy(s) ==
    /\ peers' = [n \in Nodes |-> [id \in DOMAIN peers[n] |->
                    [peers[n][id] EXCEPT !.age = Min(@ + s, PEER_STALE_SECS + 1)]]]
    /\ peers' # peers
    /\ out' = <<>>
    /\ UNCHANGED <<lk, chan, wr, trust, bcast, codec, chain, boot, port, alias, conns, plock, streams, net, inbox, call, seen, started>>

Tick ==
    /\ UNCHANGED left
    /\ \E s \in TickSteps : TickBy(s)

\* What host C may send: every variant under B's id, a Peer under its own,
\* the legacy Block, and bytes that do not parse.
InjectMsgs ==
    {Peer("B", "x", "pkX"), Ping("B", "x"), Pong("B", "x"),
     DirectBlock("B", "A", "hello"),
     TcpConnectionRequest("B", "x", 7777),
     TcpConnectionResponse("B", "A", TRUE, 7777),
     TcpConnectionResponse("B", "A", FALSE, 7777),
     TcpKeepalive("B"), TcpConnectionTest("B", 1),
     TcpConnectionTestResponse("B", "A", 1, 1),
     TcpHandshake("B", "x", "pkX"),
     Peer("C", "x", "pkX"), Block("chain")}
InjectBytes ==
    {Encode(m) : m \in InjectMsgs} \cup {Garbage, Encode(DirectBlock("B", "A", "big"))}

\* A datagram from host C reaches the discovery socket of A and recv_loop
\* takes it.
Inject(b) ==
    /\ left.env > 0
    /\ left' = [left EXCEPT !.env = @ - 1]
    /\ \E cok \in BOOLEAN, hsok \in BOOLEAN :
          RecvLoop("A", [bytes |-> b, src |-> MainAddr(ExtHost), dst |-> MainAddr("A")],
                   cok, hsok)

\* The network drops a datagram in flight.
Lose(d) ==
    /\ d \in net
    /\ net' = net \ {d}
    /\ out' = <<>>
    /\ UNCHANGED <<lk, chan, wr, trust, bcast, codec, chain, boot, port, alias, peers, conns, plock, streams, inbox, call, seen, started, left>>

\* ------------------------------------------------------------ send_message
\* A send_message(peer, payload) call: where it is (pc), how its upgrade
\* attempt ended, what it wrote to which stream (frames), how often it tried
\* a stream write (writes), the DirectBlock datagrams it handed to a socket
\* (dgrams), what it returned (result), and whether the peer had a registry
\* entry when the call started (known).
NewCall(p, x, known) ==
    [pc |-> "request", peer |-> p, payload |-> x, known |-> known, upgrade |-> "none", frames |-> <<>>,
     writes |-> 0, werr |-> "none", dgrams |-> <<>>, result |-> "none"]

Running(n) == call[n].pc \notin {"idle", "done"}


\* A call starts with the first has_tcp_connection test of send_message.
send_message(n, p, x) ==
    /\ started[n]
    /\ ~Running(n)
    /\ left.send > 0
    /\ left' = [left EXCEPT !.send = @ - 1]
    /\ call' = [call EXCEPT ![n] =
                  IF has_tcp_connection(n, p)
                  THEN [NewCall(p, x, p \in DOMAIN peers[n]) EXCEPT
                           !.pc = "check2", !.upgrade = "has_session"]
                  ELSE NewCall(p, x, p \in DOMAIN peers[n])]
    /\ out' = <<>>
    /\ UNCHANGED <<lk, chan, wr, trust, bcast, codec, chain, boot, port, alias, peers, conns, plock, streams, net, inbox, seen, started>>

\* Variant: an upgrade that fails ends the call with its error.
UpgradeFailedReturns(c, why) ==
    [c EXCEPT !.pc = "done", !.upgrade = why, !.result = "upgrade_error"]

\* send_message when request_tcp_connection does not produce a session: an
\* Err is logged ("using UDP"), an Ok is followed by the 1000 ms sleep; either
\* way the call goes on to the second has_tcp_connection test.
UpgradeFailed(c, why) == [c EXCEPT !.pc = "check2", !.upgrade = why]

\* request_tcp_connection up to its 200 ms sleep: takes the peers lock, looks
\* the peer up, sends the TcpConnectionRequest datagram from a socket bound
\* to port 0 (ok: bind and send succeed) and keeps the lock while it sleeps.
RequestTcp(n, ok) ==
    /\ call[n].pc = "request"
    /\ ~plock[n]
    /\ LET p == call[n].peer
           req == <<Dgram(TcpConnectionRequest(n, alias[n], port + TCP_PORT_OFFSET),
                          EphAddr(n), peers[n][p].last_addr)>>
       IN  IF p \notin DOMAIN peers[n]
           THEN /\ ok
                /\ call' = [call EXCEPT ![n] = UpgradeFailed(@, "peer_not_found")]
                /\ out' = <<>>
                /\ UNCHANGED <<net, plock>>
           ELSE IF ~ok
           THEN /\ call' = [call EXCEPT ![n] = UpgradeFailed(@, "request_not_sent")]
                /\ out' = <<>>
                /\ UNCHANGED <<net, plock>>
           ELSE /\ Room(req)
                /\ net' = Emit(req)
                /\ out' = req
                /\ plock' = [plock EXCEPT ![n] = TRUE]
                /\ call' = [call EXCEPT ![n].pc = "dial"]
    /\ UNCHANGED <<lk, chan, wr, trust, bcast, codec, chain, boot, port, alias, peers, conns, streams, inbox, seen, started, left>>

\* request_tcp_connection after the sleep: if the entry has a tcp_port, the
\* TCP connect (cok), the handshake write (hsok), the insert; then the lock
\* is released.  An Ok return is followed by the 1000 ms sleep of
\* send_message, an Err return is not.
DialTcp(n, cok, hsok) ==
    /\ call[n].pc = "dial"
    /\ out' = <<>>
    /\ plock' = [plock EXCEPT ![n] = FALSE]
    /\ LET p == call[n].peer
           e == peers[n][p]
       IN  IF e.tcp_port = None
           THEN /\ ~cok /\ ~hsok
                /\ call' = [call EXCEPT ![n] = UpgradeFailed(@, "no_port")]
                /\ UNCHANGED <<conns, streams>>
           ELSE IF ~cok
           THEN /\ ~hsok
                /\ call' = [call EXCEPT ![n] = UpgradeFailed(@, "refused")]
                /\ UNCHANGED <<conns, streams>>
           ELSE /\ CanConnect(e.last_addr[1], e.tcp_port[1])
                /\ Len(streams) < left.streams
                /\ IF hsok
                   THEN /\ streams' = Append(DropReplaced(streams, n, p),
                               NewStream(n, e.last_addr[1],
                                         <<TcpHandshake(n, alias[n], PubKey(n))>>))
                        /\ conns' = [conns EXCEPT ![n] =
                               Put(@, p, TcpConnection(Len(streams) + 1, "cli"))]
                        /\ call' = [call EXCEPT ![n].pc = "check2",
                                                ![n].upgrade = "connected"]
                   ELSE /\ streams' = Append(streams,
                               [NewStream(n, e.last_addr[1], <<>>) EXCEPT !.cliOpen = FALSE])
                        /\ call' = [call EXCEPT ![n] = UpgradeFailed(@, "handshake_failed")]
                        /\ UNCHANGED conns
    /\ UNCHANGED <<lk, chan, wr, trust, bcast, codec, chain, boot, port, alias, peers, net, inbox, seen, started, left>>

\* send_message, second has_tcp_connection test.
SendCheck2(n) ==
    /\ call[n].pc = "check2"
    /\ call' = [call EXCEPT ![n].pc =
                  IF has_tcp_connection(n, call[n].peer) THEN "tcp" ELSE "udp"]
    /\ out' = <<>>
    /\ UNCHANGED <<lk, chan, wr, trust, bcast, codec, chain, boot, port, alias, peers, conns, plock, streams, net, inbox, seen, started, left>>

WriteOutcomes == {"ok", "error", "timeout"}

\* Variant: the datagram path runs after a successful stream write too.
NextAfterTcpAlwaysUdp(w) == "udp"

\* Variant: a failed stream write is tried again.
NextAfterTcpRetry(w) == IF w = "ok" THEN "done" ELSE "tcp"

\* Variant: the write has no timeout, so a write the peer never accepts
\* never returns.
NextAfterTcpNoTimeout(w) ==
    IF w = "ok" THEN "done" ELSE IF w = "timeout" THEN "blocked" ELSE "udp"

\* send_message after send_via_tcp returns: Ok returns Ok, an Err falls
\* through to send_direct_block.
NextAfterTcp(w) == IF w = "ok" THEN "done" ELSE "udp"

\* send_via_tcp: one write_all of the DirectBlock frame under the stream
\* lock, bounded by TCP_MESSAGE_TIMEOUT; w is how the write ends.  (The
\* flush that follows a successful write is a no-op on a TCP stream.)
send_via_tcp(n, w) ==
    /\ call[n].pc = "tcp"
    /\ out' = <<>>
    /\ LET p == call[n].peer
           frame == DirectBlock(n, p, call[n].payload)
       IN  IF has_tcp_connection(n, p)
           THEN LET c == conns[n][p] IN
                IF w = "ok"
                THEN /\ streams' = IF c.side = "cli"
                                   THEN [streams EXCEPT ![c.stream].wire = Append(@, frame),
                                                        ![c.stream].sent = Append(@, frame)]
                                   ELSE streams
                     /\ call' = [call EXCEPT ![n].pc = NextAfterTcp(w),
                                             ![n].result = IF NextAfterTcp(w) = "done"
                                                           THEN "ok" ELSE @,
                                             ![n].writes = @ + 1,
                                             ![n].frames = Append(@, <<c.stream, frame>>)]
                ELSE /\ call' = [call EXCEPT ![n].pc = NextAfterTcp(w), ![n].writes = @ + 1,
                                             ![n].werr = w]
                     /\ UNCHANGED streams
           ELSE /\ w = "error"
                /\ call' = [call EXCEPT ![n].pc = NextAfterTcp(w), ![n].werr = "no_session"]
                /\ UNCHANGED streams
    /\ UNCHANGED <<lk, chan, wr, trust, bcast, codec, chain, boot, port, alias, peers, conns, plock, net, inbox, seen, started, left>>

\* Variant: a peer without an entry is assumed to listen on the discovery
\* port of the host named by its id.
LookupAddrGuess(n, p) ==
    IF p \in DOMAIN peers[n] THEN Some(peers[n][p].last_addr) ELSE Some(MainAddr(p))

\* Variant: the address is derived from the peer id, not read from the entry.
LookupAddrById(n, p) == IF p \in DOMAIN peers[n] THEN Some(MainAddr(p)) ELSE None

\* peers.get(peer_id) in send_direct_block: the entry's last_addr.
LookupAddr(n, p) == IF p \in DOMAIN peers[n] THEN Some(peers[n][p].last_addr) ELSE None

\* send_direct_block: under the peers lock, one DirectBlock datagram to the
\* entry's last_addr from a socket bound to port 0 (ok: bind and send
\* succeed), or "Peer not found".
send_direct_block(n, ok) ==
    /\ call[n].pc = "udp"
    /\ ~plock[n]
    /\ LET p == call[n].peer
           dg == <<Dgram(DirectBlock(n, p, call[n].payload), EphAddr(n),
                         LookupAddr(n, p)[1])>>
       IN  IF LookupAddr(n, p) = None
           THEN /\ ok
                /\ call' = [call EXCEPT ![n].pc = "done", ![n].result = "peer_not_found"]
                /\ out' = <<>>
                /\ UNCHANGED net
           ELSE IF ~ok
           THEN /\ call' = [call EXCEPT ![n].pc = "done", ![n].result = "io_error"]
                /\ out' = <<>>
                /\ UNCHANGED net
           ELSE /\ Room(dg)
                /\ net' = Emit(dg)
                /\ out' = dg
                /\ call' = [call EXCEPT ![n].pc = "done", ![n].result = "ok",
                                        ![n].dgrams = @ \o dg]
    /\ UNCHANGED <<lk, chan, wr, trust, bcast, codec, chain, boot, port, alias, peers, conns, plock, streams, inbox, seen, started, left>>

\* ------------------------------------------- handle_tcp_connection_reading

\* Variant: every TcpHandshake line rebinds the stream to its `from`.
BindPeerLatest(s, f) == Some(f.from)

\* The TcpHandshake arm of the reader task: `if !handshake_completed` the
\* stream's peer_id becomes the frame's `from`; a later handshake is ignored.
BindPeer(s, f) == IF s.rhs THEN s.rpeer ELSE Some(f.from)

\* The reader task takes the next complete line off its stream; a line that
\* serde_json::from_str rejects is logged and dropped.
ReadFrame(sid) ==
    /\ sid \in DOMAIN streams
    /\ streams[sid].rpc = "read"
    /\ streams[sid].wire # <<>>
    /\ LET s == streams[sid]
           n == s.srv
           f == Head(s.wire)
       IN  IF f.type \notin Tags
           THEN /\ streams' = [streams EXCEPT ![sid].wire = Tail(@)]
                /\ UNCHANGED <<inbox, conns>>
           ELSE IF f.type = "TcpHandshake"
           THEN /\ streams' = [streams EXCEPT ![sid].wire = Tail(@),
                                  ![sid].rpeer = BindPeer(s, f),
                                  ![sid].rhs = TRUE]
                /\ UNCHANGED <<inbox, conns>>
           ELSE /\ streams' = [streams EXCEPT ![sid].wire = Tail(@)]
                /\ IF s.rpeer # None
                   THEN /\ inbox' = [inbox EXCEPT ![n] = @ \cup Chat(f)]
                        /\ conns' = [conns EXCEPT ![n] =
                               IF s.rpeer[1] \in DOMAIN @
                               THEN [@ EXCEPT ![s.rpeer[1]].message_count = @ + 1]
                               ELSE @]
                   ELSE UNCHANGED <<inbox, conns>>
    /\ out' = <<>>
    /\ UNCHANGED <<lk, chan, wr, trust, bcast, codec, chain, boot, port, alias, peers, plock, net, call, seen, started, left>>

\* read returns Ok(0): the peer closed its end and every line is consumed.
ReadEof(sid) ==
    /\ sid \in DOMAIN streams
    /\ streams[sid].rpc = "read"
    /\ streams[sid].wire = <<>>
    /\ ~streams[sid].cliOpen
    /\ streams' = [streams EXCEPT ![sid].rpc = "store"]
    /\ out' = <<>>
    /\ UNCHANGED <<lk, chan, wr, trust, bcast, codec, chain, boot, port, alias, peers, conns, plock, net, inbox, call, seen, started, left>>

\* After the loop: "store connection if handshake was completed".
ReaderStore(sid) ==
    /\ sid \in DOMAIN streams
    /\ streams[sid].rpc = "store"
    /\ LET s == streams[sid]
           n == s.srv
       IN  IF s.rpeer # None /\ s.rhs
           THEN /\ conns' = [conns EXCEPT ![n] = Put(@, s.rpeer[1], TcpConnection(sid, "srv"))]
                /\ streams' = [DropReplaced(streams, n, s.rpeer[1]) EXCEPT ![sid].rpc = "remove"]
           ELSE /\ streams' = [streams EXCEPT ![sid].rpc = "remove"]
                /\ UNCHANGED conns
    /\ out' = <<>>
    /\ UNCHANGED <<lk, chan, wr, trust, bcast, codec, chain, boot, port, alias, peers, plock, net, inbox, call, seen, started, left>>

\* Then: "remove connection when done"; the task returns.
ReaderRemove(sid) ==
    /\ sid \in DOMAIN streams
    /\ streams[sid].rpc = "remove"
    /\ LET s == streams[sid]
           n == s.srv
       IN  IF s.rpeer # None
           THEN /\ conns' = [conns EXCEPT ![n] = Remove(@, s.rpeer[1])]
                /\ streams' = [DropReplaced(streams, n, s.rpeer[1]) EXCEPT
                                  ![sid].rpc = "done", ![sid].srvOpen = FALSE]
           ELSE /\ streams' = [streams EXCEPT ![sid].rpc = "done", ![sid].srvOpen = FALSE]
                /\ UNCHANGED conns
    /\ out' = <<>>
    /\ UNCHANGED <<lk, chan, wr, trust, bcast, codec, chain, boot, port, alias, peers, plock, net, inbox, call, seen, started, left>>

\* read returns Err: the connection was reset; what was still unread is gone.
ReadErr(sid) ==
    /\ sid \in DOMAIN streams
    /\ streams[sid].rpc = "read"
    /\ streams[sid].cli = ExtHost
    /\ streams' = [streams EXCEPT ![sid].rpc = "store", ![sid].wire = <<>>,
                                  ![sid].cliOpen = FALSE]
    /\ out' = <<>>
    /\ UNCHANGED <<lk, chan, wr, trust, bcast, codec, chain, boot, port, alias, peers, conns, plock, net, inbox, call, seen, started, left>>

\* --------------------------------------------------- host C on TCP streams
\* The lines host C may write: handshakes under two ids and two other
\* variants.
TcpFrames ==
    {TcpHandshake("B", "x", "pkX"), TcpHandshake("C", "x", "pkX"),
     DirectBlock("B", "A", "hello"), TcpKeepalive("B")}

\* A line that is not the JSON of any variant (malformed, or an unknown
\* tag).
BadLine == [type |-> "?"]
StreamFrames ==
    {TcpHandshake("B", "x", "pkX"), DirectBlock("B", "A", "hello"), BadLine}

\* The listener of node n accepts a connection from host C and spawns the
\* reader task for it.
Accept(n) ==
    /\ started[n]
    /\ Len(streams) < left.streams
    /\ streams' = Append(streams, NewStream(ExtHost, n, <<>>))
    /\ out' = <<>>
    /\ UNCHANGED <<lk, chan, wr, trust, bcast, codec, chain, boot, port, alias, peers, conns, plock, net, inbox, call, seen, started, left>>

\* Host C writes one line on a stream it opened.
ClientWrite(sid, f) ==
    /\ sid \in DOMAIN streams
    /\ streams[sid].cli = ExtHost
    /\ streams[sid].cliOpen
    /\ Len(streams[sid].sent) < MaxFrames
    /\ streams' = [streams EXCEPT ![sid].wire = Append(@, f), ![sid].sent = Append(@, f)]
    /\ out' = <<>>
    /\ UNCHANGED <<lk, chan, wr, trust, bcast, codec, chain, boot, port, alias, peers, conns, plock, net, inbox, call, seen, started, left>>

\* Host C closes its end of a stream.
RemoteClose(sid) ==
    /\ sid \in DOMAIN streams
    /\ \/ /\ streams[sid].cli = ExtHost /\ streams[sid].cliOpen
          /\ streams' = [streams EXCEPT ![sid].cliOpen = FALSE]
       \/ /\ streams[sid].srv = ExtHost /\ streams[sid].srvOpen
          /\ streams' = [streams EXCEPT ![sid].srvOpen = FALSE]
    /\ out' = <<>>
    /\ UNCHANGED <<lk, chan, wr, trust, bcast, codec, chain, boot, port, alias, peers, conns, plock, net, inbox, call, seen, started, left>>

\* ------------------------------------------------------------------- Spec
Next ==
    \/ Recv("A")
    \/ periodic_broadcast("A")
    \/ \E k \in 0..2 : set_alias("A", "new", k)
    \/ Tick
    \/ \E b \in InjectBytes : Inject(b)
    \/ \E p \in {"B", "C"} : send_message("A", p, "hello")
    \/ \E ok \in BOOLEAN : RequestTcp("A", ok)
    \/ \E cok \in BOOLEAN, hsok \in BOOLEAN : DialTcp("A", cok, hsok)
    \/ SendCheck2("A")
    \/ \E w \in WriteOutcomes : send_via_tcp("A", w)
    \/ \E ok \in BOOLEAN : send_direct_block("A", ok)

Spec == Init /\ [][Next]_vars

\* ---------------------------------------------------------------- NetSpec
\* Nodes A and B, both started, on a quiet LAN: host C sends nothing, no
\* datagram is lost and no local socket operation fails.  Both nodes run
\* their broadcaster and recv_loop and may be renamed; A sends to B.
InitNet ==
    /\ InitNode
    /\ port = 7000
    /\ started = [n \in Nodes |-> TRUE]
    /\ boot = [n \in Nodes |-> Booted]
    /\ left = [env |-> MaxEnv, send |-> MaxSend, streams |-> MaxStreams]
    /\ chain = <<>>
    /\ codec = <<>>

NextNet ==
    \/ \E n \in Nodes : Recv(n)
    \/ \E n \in Nodes : periodic_broadcast(n)
    \/ \E n \in Nodes : set_alias(n, "new", 2)
    \/ send_message("A", "B", "hello")
    \/ RequestTcp("A", TRUE)
    \/ DialTcp("A", FALSE, FALSE)
    \/ SendCheck2("A")
    \/ send_direct_block("A", TRUE)

NetSpec == InitNet /\ [][NextNet]_vars

\* --------------------------------------------------------------- LiveSpec
\* Node A with its background tasks scheduled fairly: the broadcaster
\* ticks for ever, recv_loop takes every datagram that stays available and
\* time passes.  The network may drop datagrams and host C sends a bounded
\* number of them.
BroadcasterTask(n) == BroadcastTick(n) /\ UNCHANGED left

NextLive ==
    \/ Recv("A")
    \/ BroadcasterTask("A")
    \/ Tick
    \/ \E d \in net : Lose(d)
    \/ \E b \in InjectBytes : Inject(b)

LiveSpec ==
    /\ Init
    /\ [][NextLive]_vars
    /\ WF_vars(Recv("A"))
    /\ WF_vars(BroadcasterTask("A"))
    /\ WF_vars(Tick)

\* ---------------------------------------------------------------- TcpSpec
\* Node A with its TCP side: host C opens connections to A's listener,
\* writes lines and closes; an accepted TcpConnectionResponse from C makes
\* recv_loop open an outbound stream; A sends to B.  The tasks of the node
\* (reader tasks, the send call) are scheduled fairly.
UpgradeOffer == Encode(TcpConnectionResponse("B", "A", TRUE, 7777))

ReaderTask(sid) ==
    ReadFrame(sid) \/ ReadEof(sid) \/ ReaderStore(sid) \/ ReaderRemove(sid)

SendTask(n) ==
    \/ RequestTcp(n, TRUE)
    \/ \E cok, hsok \in BOOLEAN : DialTcp(n, cok, hsok)
    \/ SendCheck2(n)
    \/ \E w \in WriteOutcomes : send_via_tcp(n, w)
    \/ send_direct_block(n, TRUE)

NextTcp ==
    \/ Accept("A")
    \/ \E sid \in 1..MaxStreams, f \in TcpFrames : ClientWrite(sid, f)
    \/ \E sid \in 1..MaxStreams : RemoteClose(sid)
    \/ \E sid \in 1..MaxStreams : ReadErr(sid)
    \/ \E sid \in 1..MaxStreams : ReaderTask(sid)
    \/ Inject(UpgradeOffer)
    \/ send_message("A", "B", "hello")
    \/ SendTask("A")

TcpSpec ==
    /\ Init
    /\ [][NextTcp]_vars
    /\ \A sid \in 1..MaxStreams : WF_vars(ReaderTask(sid))
    /\ WF_vars(SendTask("A"))

\* ----------------------------------------------------------- DiscoverySpec
\* Nodes A and B, both started, and nothing else: no datagram is lost and the
\* time looked at is short of PEER_STALE_SECS.  The broadcaster is driven by
\* its own timer and sends whatever is in flight (a datagram equal to one in
\* flight adds nothing to the set, so the set stays bounded).  A socket hands
\* out the datagrams it received in order, so recv_loop gets to every
\* datagram that reached its socket; the fairness stated is that for the
\* datagrams of the other node.
Broadcaster(n) == BroadcastSend(n) /\ UNCHANGED left

\* The datagrams the two nodes exchange while they discover each other.
DiscoveryDgrams ==
    {[bytes |-> Encode(m[2]), src |-> <<m[1], 7000>>, dst |-> <<t, 7000>>] :
        t \in Nodes,
        m \in {<<x, Peer(x, "old", PubKey(x))>> : x \in Nodes}
              \cup {<<x, Ping(x, "old")>> : x \in Nodes}
              \cup {<<x, Pong(x, "old")>> : x \in Nodes}}

RecvOne(d) ==
    /\ d \in net
    /\ UNCHANGED left
    /\ \E cok, hsok \in BOOLEAN : RecvLoop(d.dst[1], d, cok, hsok)

RecvOther(n) ==
    \E d \in {x \in DiscoveryDgrams : x.dst[1] = n /\ x.src[1] # n} : RecvOne(d)

NextDiscovery ==
    \/ \E d \in DiscoveryDgrams : RecvOne(d)
    \/ \E n \in Nodes : Broadcaster(n)

DiscoverySpec ==
    /\ InitNet
    /\ [][NextDiscovery]_vars
    /\ \A n \in Nodes : WF_vars(Broadcaster(n))
    /\ \A n \in Nodes : WF_vars(RecvOther(n))

\* ------------------------------------------------------------- StreamSpec
\* Node A with host C on both transports while time passes: C sends
\* datagrams, opens a connection to A's listener, writes lines on it and
\* closes or resets it.
StreamDgrams ==
    {Encode(Peer("B", "x", "pkX")), Encode(TcpKeepalive("C")), Encode(Block("chain")),
     Garbage}

NextStream ==
    \/ Accept("A")
    \/ \E sid \in 1..MaxStreams, f \in StreamFrames : ClientWrite(sid, f)
    \/ \E sid \in 1..MaxStreams : RemoteClose(sid)
    \/ \E sid \in 1..MaxStreams : ReadErr(sid)
    \/ \E sid \in 1..MaxStreams : ReaderTask(sid)
    \/ Tick
    \/ \E b \in StreamDgrams : Inject(b)

StreamSpec == Init /\ [][NextStream]_vars

\* --------------------------------------------------------------- PairSpec
\* Node A where two streams of one peer meet: host C, under B's id, asks for
\* an upgrade (which records B with a tcp_port) and accepts one, connects to
\* A's listener, writes a handshake and closes; A sends to B, which takes it
\* through request_tcp_connection.
PairDgrams ==
    {Encode(TcpConnectionRequest("B", "x", 7777)), UpgradeOffer}

InitPair ==
    /\ InitNode
    /\ port = 7000
    /\ started = [n \in Nodes |-> n = "A"]
    /\ boot = [n \in Nodes |-> IF n = "A" THEN Booted ELSE NotCalled]
    /\ left = [env |-> MaxEnv, send |-> MaxSend, streams |-> MaxPair]
    /\ chain = <<>>
    /\ codec = <<>>

NextPair ==
    \/ Accept("A")
    \/ \E sid \in 1..MaxPair : ClientWrite(sid, TcpHandshake("B", "x", "pkX"))
    \/ \E sid \in 1..MaxPair : RemoteClose(sid)
    \/ \E sid \in 1..MaxPair : ReaderTask(sid)
    \/ \E b \in PairDgrams : Inject(b)
    \/ send_message("A", "B", "hello")
    \/ SendTask("A")

PairSpec == InitPair /\ [][NextPair]_vars

\* -------------------------------------------------------------- AliasSpec
\* Node A alone, renamed while its broadcaster and its recv_loop run: the
\* tick of periodic_broadcast is taken await by await, set_alias may lose
\* either send of ping_now, and host C probes A.
ProbeFromC == Encode(Ping("B", "x"))

NextAlias ==
    \/ BroadcastRead("A")
    \/ BroadcastAnnounce("A")
    \/ BroadcastPing("A")
    \/ \E k \in 0..2 : set_alias("A", "new", k)
    \/ Recv("A")
    \/ Inject(ProbeFromC)

AliasSpec == Init /\ [][NextAlias]_vars

\* ------------------------------------------------------------------ start
\* start() awaits the two binds and nothing else: tokio::spawn hands a task
\* to the runtime and returns at once.  Its return type is (), on every
\* path.
\* Variant: start awaits the handle of the receive loop it spawned.
StartJoins(b) == [b EXCEPT !.pc = "join"]

StartReturns(b) == [b EXCEPT !.pc = "returned", !.ret = "unit"]

\* UdpSocket::bind("0.0.0.0:port"); ok: the bind succeeds.
start_bind(n, ok) ==
    /\ boot[n].pc = "new"
    /\ boot' = [boot EXCEPT ![n] = IF ok THEN [@ EXCEPT !.pc = "spawn", !.bound = "wildcard"]
                                   ELSE [@ EXCEPT !.pc = "fallback"]]
    /\ out' = <<>>
    /\ UNCHANGED <<lk, chan, wr, trust, bcast, codec, chain, port, alias, peers, conns, plock, streams, net, inbox, call, seen, started, left>>

\* UdpSocket::bind("127.0.0.1:port") after the first bind failed; when this
\* one fails too the error is logged and start returns.
start_fallback(n, ok) ==
    /\ boot[n].pc = "fallback"
    /\ boot' = [boot EXCEPT ![n] = IF ok THEN [@ EXCEPT !.pc = "spawn", !.bound = "loopback"]
                                   ELSE StartReturns(@)]
    /\ out' = <<>>
    /\ UNCHANGED <<lk, chan, wr, trust, bcast, codec, chain, port, alias, peers, conns, plock, streams, net, inbox, call, seen, started, left>>

\* The three tokio::spawn calls, then the end of the function.  A socket
\* bound to the loopback address neither receives the datagrams of the LAN
\* nor reaches it, so only a node bound to the wildcard address takes part
\* in the exchange (started).
start_spawn(n) ==
    /\ boot[n].pc = "spawn"
    /\ boot' = [boot EXCEPT ![n] = StartReturns([@ EXCEPT !.tasks = Tasks])]
    /\ started' = [started EXCEPT ![n] = boot[n].bound = "wildcard"]
    /\ out' = <<>>
    /\ UNCHANGED <<lk, chan, wr, trust, bcast, codec, chain, port, alias, peers, conns, plock, streams, net, inbox, call, seen, left>>

start(n) ==
    \/ \E ok \in BOOLEAN : start_bind(n, ok)
    \/ \E ok \in BOOLEAN : start_fallback(n, ok)
    \/ start_spawn(n)

\* -------------------------------------------------------------- StartSpec
\* Two nodes whose start() has not been called yet.  The application may
\* call it; a call that has begun is scheduled fairly, and so are the
\* tasks it spawned.
InitStart ==
    /\ InitNode
    /\ port = 7000
    /\ started = [n \in Nodes |-> FALSE]
    /\ boot = [n \in Nodes |-> NotCalled]
    /\ left = [env |-> MaxEnv, send |-> MaxSend, streams |-> MaxStreams]
    /\ chain = <<>>
    /\ codec = <<>>

StartCall(n) == boot[n].pc # "new" /\ start(n)

NextStart ==
    \/ \E n \in Nodes : start(n)
    \/ \E n \in Nodes : Recv(n)
    \/ \E n \in Nodes : periodic_broadcast(n)

StartSpec ==
    /\ InitStart
    /\ [][NextStart]_vars
    /\ \A n \in Nodes : WF_vars(StartCall(n))

\* -------------------------------------------------------------- serde_json
\* NetworkMessage derives Serialize and Deserialize with #[serde(tag =
\* "type")]: a message is written as one JSON object, the variant name under
\* the key "type" first, then the fields in declaration order.  The bytes are
\* modelled as a sequence of characters; key names, variant names and the
\* literals true and false stand as one element each, string values are
\* written character by character with JSON escaping.
Quote == "\""
Backslash == "\\"
ValueChars == {"a", ",", Quote, Backslash}
Strs == UNION {[1..k -> ValueChars] : k \in 0..MaxStr}
U16s == {0, 8000, 65535}
U64s == {0, 1700000000}

\* The fields of each variant, in declaration order, with their kind: s a
\* String, n an unsigned integer, b a bool.
FieldsOf(tag) ==
    CASE tag = "Peer" -> <<<<"id", "s">>, <<"alias", "s">>, <<"pubkey", "s">>>>
      [] tag \in {"Ping", "Pong"} -> <<<<"id", "s">>, <<"alias", "s">>>>
      [] tag = "Block" -> <<<<"block_json", "s">>>>
      [] tag = "DirectBlock" -> <<<<"from", "s">>, <<"to", "s">>, <<"payload_json", "s">>>>
      [] tag = "TcpConnectionRequest" ->
            <<<<"from", "s">>, <<"from_alias", "s">>, <<"tcp_port", "n">>>>
      [] tag = "TcpConnectionResponse" ->
            <<<<"from", "s">>, <<"to", "s">>, <<"accepted", "b">>, <<"tcp_port", "n">>>>
      [] tag = "TcpKeepalive" -> <<<<"from", "s">>>>
      [] tag = "TcpConnectionTest" -> <<<<"from", "s">>, <<"timestamp", "n">>>>
      [] tag = "TcpConnectionTestResponse" ->
            <<<<"from", "s">>, <<"to", "s">>, <<"timestamp", "n">>,
              <<"response_time_ms", "n">>>>
      [] tag = "TcpHandshake" -> <<<<"from", "s">>, <<"from_alias", "s">>, <<"pubkey", "s">>>>

\* The messages taken through the codec: every variant, every field over the
\* bounded value sets.
CodecMessages ==
    {Peer(a, b, c) : a \in Strs, b \in Strs, c \in Strs}
    \cup {Ping(a, b) : a \in Strs, b \in Strs}
    \cup {Pong(a, b) : a \in Strs, b \in Strs}
    \cup {Block(a) : a \in Strs}
    \cup {DirectBlock(a, b, c) : a \in Strs, b \in Strs, c \in Strs}
    \cup {TcpConnectionRequest(a, b, n) : a \in Strs, b \in Strs, n \in U16s}
    \cup {TcpConnectionResponse(a, b, acc, n) :
             a \in Strs, b \in {<<>>, <<Quote>>}, acc \in BOOLEAN, n \in U16s}
    \cup {TcpKeepalive(a) : a \in Strs}
    \cup {TcpConnectionTest(a, n) : a \in Strs, n \in U64s}
    \cup {TcpConnectionTestResponse(a, b, n, k) :
             a \in Strs, b \in {<<>>, <<Backslash>>}, n \in U64s, k \in U64s}
    \cup {TcpHandshake(a, b, c) : a \in Strs, b \in Strs, c \in Strs}

DigitChars == <<"0", "1", "2", "3", "4", "5", "6", "7", "8", "9">>

\* Variant: only the quote is escaped.
RECURSIVE EscapeQuotesOnly(_)
EscapeQuotesOnly(str) ==
    IF str = <<>> THEN <<>>
    ELSE (IF Head(str) = Quote THEN <<Backslash, Quote>> ELSE <<Head(str)>>)
         \o EscapeQuotesOnly(Tail(str))

\* A string's characters as serde_json writes them between the quotes.
RECURSIVE Escape(_)
Escape(str) ==
    IF str = <<>> THEN <<>>
    ELSE (IF Head(str) \in {Quote, Backslash} THEN <<Backslash, Head(str)>>
          ELSE <<Head(str)>>)
         \o Escape(Tail(str))

RECURSIVE ToDigits(_)
ToDigits(n) ==
    IF n < 10 THEN <<DigitChars[n + 1]>>
    ELSE ToDigits(n \div 10) \o <<DigitChars[(n % 10) + 1]>>

JsonValue(kind, v) ==
    CASE kind = "s" -> <<Quote>> \o Escape(v) \o <<Quote>>
      [] kind = "n" -> ToDigits(v)
      [] kind = "b" -> IF v THEN <<"true">> ELSE <<"false">>

JsonKey(k) == <<Quote, k, Quote, ":">>

RECURSIVE JsonFields(_, _, _)
JsonFields(m, fs, i) ==
    IF i > Len(fs) THEN <<>>
    ELSE <<",">> \o JsonKey(fs[i][1]) \o JsonValue(fs[i][2], m[fs[i][1]])
         \o JsonFields(m, fs, i + 1)

\* serde_json::to_vec(&msg)
to_vec(m) ==
    <<"{">> \o JsonKey("type") \o <<Quote, m.type, Quote>>
    \o JsonFields(m, FieldsOf(m.type), 1) \o <<"}">>

Fail == [ok |-> FALSE]

\* Reads a string from the character after its opening quote.
RECURSIVE ScanString(_, _, _)
ScanString(b, i, acc) ==
    IF i > Len(b) THEN Fail
    ELSE IF b[i] = Quote THEN [ok |-> TRUE, kind |-> "s", val |-> acc, next |-> i + 1]
    ELSE IF b[i] = Backslash
    THEN IF i + 1 <= Len(b) /\ b[i + 1] \in {Quote, Backslash}
         THEN ScanString(b, i + 2, Append(acc, b[i + 1]))
         ELSE Fail
    ELSE ScanString(b, i + 1, Append(acc, b[i]))

DigitValue(c) == CHOOSE d \in 0..9 : DigitChars[d + 1] = c
IsDigit(c) == \E d \in 0..9 : DigitChars[d + 1] = c

RECURSIVE ScanNumber(_, _, _)
ScanNumber(b, i, acc) ==
    IF i <= Len(b) /\ IsDigit(b[i]) THEN ScanNumber(b, i + 1, acc * 10 + DigitValue(b[i]))
    ELSE [ok |-> TRUE, kind |-> "n", val |-> acc, next |-> i]

ScanValue(b, i) ==
    IF i > Len(b) THEN Fail
    ELSE IF b[i] = Quote THEN ScanString(b, i + 1, <<>>)
    ELSE IF IsDigit(b[i]) THEN ScanNumber(b, i, 0)
    ELSE IF b[i] \in {"true", "false"}
    THEN [ok |-> TRUE, kind |-> "b", val |-> b[i] = "true", next |-> i + 1]
    ELSE Fail

\* Reads the members of an object from position i, up to the closing brace,
\* which must end the input; acc maps the keys read so far to their values.
RECURSIVE ScanMembers(_, _, _)
ScanMembers(b, i, acc) ==
    IF i > Len(b) \/ b[i] # Quote THEN Fail
    ELSE LET k == ScanString(b, i + 1, <<>>) IN
         IF ~k.ok \/ Len(k.val) # 1 THEN Fail
         ELSE IF k.next > Len(b) \/ b[k.next] # ":" THEN Fail
         ELSE LET v == ScanValue(b, k.next + 1) IN
              IF ~v.ok \/ v.next > Len(b) \/ k.val[1] \in DOMAIN acc THEN Fail
              ELSE LET map == Put(acc, k.val[1], [kind |-> v.kind, val |-> v.val]) IN
                   IF b[v.next] = "," THEN ScanMembers(b, v.next + 1, map)
                   ELSE IF b[v.next] = "}" /\ v.next = Len(b)
                   THEN [ok |-> TRUE, map |-> map]
                   ELSE Fail

\* The variant named by "type", built from the members; a member the variant
\* does not have is ignored, a missing or ill-typed one is an error.
FromObject(map) ==
    IF "type" \notin DOMAIN map \/ map["type"].kind # "s" \/ Len(map["type"].val) # 1
    THEN None
    ELSE LET tag == map["type"].val[1] IN
         IF tag \notin Tags THEN None
         ELSE LET fs == FieldsOf(tag)
                  names == {fs[i][1] : i \in 1..Len(fs)}
              IN  IF \A i \in 1..Len(fs) :
                        /\ fs[i][1] \in DOMAIN map
                        /\ map[fs[i][1]].kind = fs[i][2]
                        /\ fs[i][1] = "tcp_port" => map[fs[i][1]].val <= 65535
                  THEN Some([k \in names \cup {"type"} |->
                               IF k = "type" THEN tag ELSE map[k].val])
                  ELSE None

\* serde_json::from_slice::<NetworkMessage>(bytes)
from_slice(b) ==
    IF Len(b) < 2 \/ b[1] # "{" THEN None
    ELSE LET r == ScanMembers(b, 2, EmptyMap) IN
         IF r.ok THEN FromObject(r.map) ELSE None

\* A message is serialised, then the bytes are parsed.
Serialize ==
    /\ codec # <<>>
    /\ codec.stage = "msg"
    /\ codec' = [stage |-> "bytes", msg |-> codec.msg, bytes |-> to_vec(codec.msg),
                 back |-> None]
    /\ UNCHANGED <<lk, chan, wr, trust, bcast, port, alias, peers, conns, plock, streams, net, inbox, call, out,
                   seen, started, left, boot, chain>>

Deserialize ==
    /\ codec # <<>>
    /\ codec.stage = "bytes"
    /\ codec' = [codec EXCEPT !.stage = "back", !.back = from_slice(codec.bytes)]
    /\ UNCHANGED <<lk, chan, wr, trust, bcast, port, alias, peers, conns, plock, streams, net, inbox, call, out,
                   seen, started, left, boot, chain>>

\* -------------------------------------------------------------- CodecSpec
InitCodec ==
    /\ InitNode
    /\ port = 7000
    /\ started = [n \in Nodes |-> FALSE]
    /\ boot = [n \in Nodes |-> NotCalled]
    /\ left = [env |-> 0, send |-> 0, streams |-> 0]
    /\ chain = <<>>
    /\ codec \in {[stage |-> "msg", msg |-> m, bytes |-> <<>>, back |-> None] :
                    m \in CodecMessages}

NextCodec == Serialize \/ Deserialize

CodecSpec == InitCodec /\ [][NextCodec]_vars

\* C14: the bytes serde_json writes for a message parse back to an equal
\* message, for every variant and every field value, and they carry the
\* variant's name under the key "type", a name no other variant has.
C14_RoundTrip ==
    /\ codec # <<>> /\ codec.stage # "msg" =>
          /\ SubSeq(codec.bytes, 1, 8) =
                <<"{", Quote, "type", Quote, ":", Quote, codec.msg.type, Quote>>
          /\ codec.msg.type \in Tags
    /\ codec # <<>> /\ codec.stage = "back" => codec.back = Some(codec.msg)
    /\ Cardinality(Tags) = 11

C14_Witness ==
    /\ codec # <<>>
    /\ codec.stage = "back"
    /\ codec.msg.type = "DirectBlock"
    /\ codec.msg.payload_json = <<Backslash, Quote>>
    /\ codec.back = Some(codec.msg)

\* ------------------------------------------------------ wichain-blockchain
\* Strings are sequences of characters, as in the codec above.  A Blockchain
\* value is its field `chain`, a Vec<Block>; a Block is a record with the
\* fields of the struct.  SHA-256 is taken to be free of collisions: the
\* digest of a string is that string under a tag.  What calculate_hash feeds
\* to it is the code's format! concatenation, without separators.
Texts == {<<"a">>, <<"1", "a">>}
Stamps == {1, 12}

\* Two SignedMessage values (wichain-core); the chain never looks inside.
SignedMessages ==
    {[id |-> <<"i">>, from |-> <<"f">>, to |-> None, timestamp_ms |-> 1,
      content |-> <<"a">>, sig |-> <<"s">>],
     [id |-> <<"j">>, from |-> <<"f">>, to |-> Some(<<"t">>), timestamp_ms |-> 12,
      content |-> <<Quote>>, sig |-> <<"s">>]}
MessageVecs ==
    {<<>>} \cup {<<m>> : m \in SignedMessages}
           \cup {p \in SignedMessages \X SignedMessages : p[1] # p[2]}

Sha256(input) == <<"sha256:">> \o input

calculate_hash(b) ==
    Sha256(ToDigits(b.index) \o ToDigits(b.timestamp_ms) \o b.previous_hash
           \o ToDigits(b.nonce) \o b.data)

Block_new(index, timestamp_ms, previous_hash, nonce, data) ==
    [index |-> index, timestamp_ms |-> timestamp_ms, previous_hash |-> previous_hash,
     nonce |-> nonce, data |-> data,
     hash |-> calculate_hash([index |-> index, timestamp_ms |-> timestamp_ms,
                              previous_hash |-> previous_hash, nonce |-> nonce,
                              data |-> data, hash |-> <<>>])]

new_text(index, timestamp_ms, previous_hash, text) ==
    Block_new(index, timestamp_ms, previous_hash, 0, text)

\* serde_json::to_string of one SignedMessage and of a slice of them.
SignedJson(m) ==
    <<"{">> \o JsonKey("id") \o JsonValue("s", m.id)
    \o <<",">> \o JsonKey("from") \o JsonValue("s", m.from)
    \o <<",">> \o JsonKey("to")
    \o (IF m.to = None THEN <<"null">> ELSE JsonValue("s", m.to[1]))
    \o <<",">> \o JsonKey("timestamp_ms") \o JsonValue("n", m.timestamp_ms)
    \o <<",">> \o JsonKey("content") \o JsonValue("s", m.content)
    \o <<",">> \o JsonKey("sig") \o JsonValue("s", m.sig) \o <<"}">>

RECURSIVE JsonElements(_)
JsonElements(msgs) ==
    IF msgs = <<>> THEN <<>>
    ELSE IF Len(msgs) = 1 THEN SignedJson(msgs[1])
    ELSE SignedJson(Head(msgs)) \o <<",">> \o JsonElements(Tail(msgs))

new_messages(index, timestamp_ms, previous_hash, msgs) ==
    Block_new(index, timestamp_ms, previous_hash, 0,
              <<"[">> \o JsonElements(msgs) \o <<"]">>)

\* json!({"direct": {from, to, text, ts}}).to_string(): the keys of a
\* serde_json map come out sorted.
new_direct(index, timestamp_ms, previous_hash, from, to, text) ==
    Block_new(index, timestamp_ms, previous_hash, 0,
              <<"{">> \o JsonKey("direct") \o <<"{">>
              \o JsonKey("from") \o JsonValue("s", from)
              \o <<",">> \o JsonKey("text") \o JsonValue("s", text)
              \o <<",">> \o JsonKey("to") \o JsonValue("s", to)
              \o <<",">> \o JsonKey("ts") \o JsonValue("n", timestamp_ms)
              \o <<"}", "}">>)

GenesisData == <<"G", "e", "n", "e", "s", "i", "s", " ", "B", "l", "o", "c", "k">>

\* Blockchain::new(): an empty Vec, then push_genesis.
Blockchain_new(now) == <<new_text(0, now, <<"0">>, GenesisData)>>

\* Variant: the first block is taken for the last.
first_block(c) == c[1]

last_block(c) == c[Len(c)]

\* The loop runs over i in 1..len (0-based), that is over every block but
\* the first, and returns false at the first block that fails.
is_valid(c) ==
    /\ c # <<>>
    /\ \A i \in 2..Len(c) :
          /\ c[i].previous_hash = c[i - 1].hash
          /\ c[i].hash = calculate_hash(c[i])

\* self.chain.push(b); the index is chain.len() before the push.
Push(b) ==
    /\ Len(chain) <= MaxChain
    /\ chain' = Append(chain, b)
    /\ UNCHANGED <<lk, chan, wr, trust, bcast, codec, boot, port, alias, peers, conns, plock, streams, net, inbox, call, out, seen, started, left>>

add_text_block(text, now) ==
    Push(new_text(Len(chain), now, last_block(chain).hash, text))

add_messages_block(messages, now) ==
    Push(new_messages(Len(chain), now, last_block(chain).hash, messages))

add_message_block(msg, now) == add_messages_block(<<msg>>, now)

add_direct_text_block(from, to, text, now) ==
    Push(new_direct(Len(chain), now, last_block(chain).hash, from, to, text))

Append1 ==
    \E now \in Stamps :
        \/ \E text \in Texts : add_text_block(text, now)
        \/ \E msg \in SignedMessages : add_message_block(msg, now)
        \/ \E messages \in MessageVecs : add_messages_block(messages, now)
        \/ \E text \in Texts : add_direct_text_block(<<"f">>, <<"t">>, text, now)

\* The tests' tampering: the data of block i (1-based here) is overwritten
\* through the public field and its hash is left as it was.
Tamper(i, data) ==
    /\ i \in 1..Len(chain)
    /\ data # chain[i].data
    /\ chain' = [chain EXCEPT ![i].data = data]
    /\ UNCHANGED <<lk, chan, wr, trust, bcast, codec, boot, port, alias, peers, conns, plock, streams, net, inbox, call, out, seen, started, left>>

InitChain ==
    /\ InitNode
    /\ port = 7000
    /\ started = [n \in Nodes |-> FALSE]
    /\ boot = [n \in Nodes |-> NotCalled]
    /\ left = [env |-> 0, send |-> 0, streams |-> 0]
    /\ codec = <<>>
    /\ chain \in {Blockchain_new(now) : now \in Stamps}

\* ChainSpec: a chain that is only appended to.
ChainSpec == InitChain /\ [][Append1]_vars

\* TamperSpec: a chain that is appended to and, while it validates, has the
\* data of one of its blocks overwritten.
TamperStep ==
    \E i \in 1..(MaxChain + 1), data \in Texts :
        is_valid(chain) /\ Tamper(i, data)

NextTamper == Append1 \/ TamperStep

TamperSpec == InitChain /\ [][NextTamper]_vars

\* C19: a chain built by Blockchain::new() and any appends validates, has
\* one block more than the appends made (every append adds exactly one
\* block to the one of new()), and each block after the first has its
\* position as index and the hash of the block before it as previous_hash.
C19_AppendsKeepValid ==
    /\ Len(chain) = 1
    /\ [](/\ is_valid(chain)
          /\ \A i \in 2..Len(chain) :
                chain[i].index = i - 1 /\ chain[i].previous_hash = chain[i - 1].hash)
    /\ [][Len(chain') = Len(chain) + 1 /\ SubSeq(chain', 1, Len(chain)) = chain]_vars

C19_Witness ==
    /\ Len(chain) = MaxChain + 1
    /\ \E text \in Texts : chain[2].data = text
    /\ chain[3].data[1] = "["
    /\ chain[4].data[1] = "{"
    /\ is_valid(chain)

\* C20 as stated: overwriting the data of any block of a chain that
\* validates, the first block included, without recomputing its hash makes
\* is_valid return false.
C20_TamperDetected ==
    [][\A i \in 1..Len(chain) :
         (is_valid(chain) /\ \E data \in Texts : Tamper(i, data)) => ~is_valid(chain')]_vars

\* ------------------------------------------------------------ wichain-core
\* TrustManager.  An f64 is a pair: <<"num", v>> a finite value (whole
\* points are enough here), <<"inf", 1>> and <<"inf", -1>> the infinities,
\* <<"nan", 0>> a NaN.  Arithmetic and clamp follow IEEE 754 and f64::clamp:
\* a NaN operand gives NaN, infinity times zero and the sum of opposite
\* infinities give NaN, and clamp returns a NaN it is given.
Num(v) == <<"num", v>>
NaN == <<"nan", 0>>
Inf(sign) == <<"inf", sign>>

Sign(v) == IF v > 0 THEN 1 ELSE IF v < 0 THEN -1 ELSE 0

FAdd(a, b) ==
    CASE a = NaN \/ b = NaN -> NaN
      [] a[1] = "inf" /\ b[1] = "inf" -> IF a[2] = b[2] THEN a ELSE NaN
      [] a[1] = "inf" -> a
      [] b[1] = "inf" -> b
      [] OTHER -> Num(a[2] + b[2])

FNeg(a) == IF a = NaN THEN NaN ELSE <<a[1], -a[2]>>

FMul(a, b) ==
    CASE a = NaN \/ b = NaN -> NaN
      [] a[1] = "inf" \/ b[1] = "inf" ->
            IF Sign(a[2]) * Sign(b[2]) = 0 THEN NaN ELSE Inf(Sign(a[2]) * Sign(b[2]))
      [] OTHER -> Num(a[2] * b[2])

\* a < b; false when either is a NaN.
FLess(a, b) ==
    CASE a = NaN \/ b = NaN -> FALSE
      [] a[1] = "inf" -> a[2] < 0 /\ b # a
      [] b[1] = "inf" -> b[2] > 0
      [] OTHER -> a[2] < b[2]

\* f64::clamp
clamp(x, min, max) ==
    IF FLess(x, min) THEN min ELSE IF FLess(max, x) THEN max ELSE x

\* drop_after is 24 h; time is counted in steps of HourStep hours, up to
\* the first value past drop_after.
DropAfterHours == 24
HourStep == 12
TrustIds == {"peer1", "peer2"}
Deltas == {Num(20), Num(-80), Num(60), Inf(1), Inf(-1), NaN}
Rates == {Num(1), Num(10)}

\* Peer::new: the neutral score, seen now.  `idle` is the time since
\* last_seen, in hours.
Peer_new == [trust_score |-> Num(50), idle |-> 0]

upsert_peer(id) ==
    /\ trust' = [trust EXCEPT !.peers =
                    IF id \in DOMAIN @ THEN [@ EXCEPT ![id].idle = 0]
                    ELSE Put(@, id, Peer_new)]
    /\ UNCHANGED <<lk, chan, wr, bcast, codec, chain, boot, port, alias, peers, conns, plock, streams, net, inbox, call, out, seen, started, left>>

update_trust(id, delta) ==
    /\ trust' = [trust EXCEPT !.peers =
                    IF id \in DOMAIN @
                    THEN [@ EXCEPT ![id] =
                            [trust_score |-> clamp(FAdd(@.trust_score, delta), Num(0), Num(100)),
                             idle |-> 0]]
                    ELSE @]
    /\ UNCHANGED <<lk, chan, wr, bcast, codec, chain, boot, port, alias, peers, conns, plock, streams, net, inbox, call, out, seen, started, left>>

\* retain: a peer unseen for longer than drop_after goes, the others lose
\* decay_rate_per_hour points for each hour since last_seen.
decay_trust ==
    /\ trust' = [trust EXCEPT !.peers =
                    [id \in {x \in DOMAIN @ : @[x].idle <= DropAfterHours} |->
                        [@[id] EXCEPT !.trust_score =
                            clamp(FAdd(@, FNeg(FMul(trust.decay_rate_per_hour, Num(trust.peers[id].idle)))),
                                  Num(0), Num(100))]]]
    /\ UNCHANGED <<lk, chan, wr, bcast, codec, chain, boot, port, alias, peers, conns, plock, streams, net, inbox, call, out, seen, started, left>>

\* HourStep hours pass.
TrustTick ==
    /\ \E id \in DOMAIN trust.peers : trust.peers[id].idle <= DropAfterHours
    /\ trust' = [trust EXCEPT !.peers =
                    [id \in DOMAIN @ |->
                        [@[id] EXCEPT !.idle =
                            IF @ <= DropAfterHours THEN @ + HourStep ELSE @]]]
    /\ UNCHANGED <<lk, chan, wr, bcast, codec, chain, boot, port, alias, peers, conns, plock, streams, net, inbox, call, out, seen, started, left>>

\* TrustManager::new(rate)
InitTrust ==
    /\ alias = [n \in Nodes |-> "old"]
    /\ peers = [n \in Nodes |-> EmptyMap]
    /\ conns = [n \in Nodes |-> EmptyMap]
    /\ plock = [n \in Nodes |-> FALSE]
    /\ streams = <<>>
    /\ net = {}
    /\ inbox = [n \in Nodes |-> {}]
    /\ call = [n \in Nodes |-> IdleCall]
    /\ out = <<>>
    /\ seen = [n \in Nodes |-> {}]
    /\ bcast = [n \in Nodes |-> Sleeping]
    /\ port = 7000
    /\ started = [n \in Nodes |-> FALSE]
    /\ boot = [n \in Nodes |-> NotCalled]
    /\ left = [env |-> 0, send |-> 0, streams |-> 0]
    /\ chain = <<>>
    /\ codec = <<>>
    /\ trust \in {[peers |-> EmptyMap, decay_rate_per_hour |-> r] : r \in Rates}
    /\ wr = <<>>
    /\ chan = <<>>
    /\ lk = <<>>

NextTrust ==
    \/ \E id \in TrustIds : upsert_peer(id)
    \/ \E id \in TrustIds, delta \in Deltas : update_trust(id, delta)
    \/ decay_trust
    \/ TrustTick

TrustSpec == InitTrust /\ [][NextTrust]_vars

\* --------------------------------------- send_via_tcp, concurrent callers
\* Several send_via_tcp calls of one node run at once on the session of one
\* peer.  Each holds the connections read lock (shared), takes the session's
\* `stream` mutex, and runs write_all for its frame under the timeout.
\* write_all hands the frame to the socket in pieces (poll_write accepts what
\* the send buffer takes); a frame is FrameChunks pieces, the last one ends
\* with the newline.
\*   wr.pc[w]      where caller w is: "idle", "lock" (in stream.lock().await),
\*                 "write" (holds the guard, in write_all), "done"
\*   wr.queue      the callers that asked for the mutex and have not released
\*                 it, in the order they asked; its head holds it
\*   wr.order      the callers in the order they acquired the mutex
\*   wr.wire       the pieces the socket accepted, in order: <<caller, piece>>
\*   wr.result[w]  what the call returned
\*   wr.broken     a write has failed with an I/O error
Writers == 1..MaxWriters

Written(w) == Cardinality({i \in 1..Len(wr.wire) : wr.wire[i][1] = w})

WrUnchanged ==
    UNCHANGED <<port, alias, peers, conns, plock, streams, net, inbox, call, out, seen,
                started, left, boot, chain, codec, bcast, trust, chan, lk>>

\* `conn.stream.lock().await`: the caller joins the waiters of the mutex.
StreamLock(w) ==
    /\ wr.pc[w] = "idle"
    /\ wr' = [wr EXCEPT !.pc[w] = "lock", !.queue = Append(@, w)]
    /\ WrUnchanged

\* The mutex is fair: it is handed to the caller that has waited longest.
StreamLocked(w) ==
    /\ wr.pc[w] = "lock"
    /\ Head(wr.queue) = w
    /\ wr' = [wr EXCEPT !.pc[w] = "write", !.order = Append(@, w)]
    /\ WrUnchanged

\* One poll_write inside write_all: the socket accepts the next piece.
PollWrite(w) ==
    /\ wr.pc[w] = "write"
    /\ ~wr.broken
    /\ Written(w) < FrameChunks
    /\ wr' = [wr EXCEPT !.wire = Append(@, <<w, Written(w) + 1>>)]
    /\ WrUnchanged

\* `Ok(Ok(()))`: write_all has handed over the whole frame; flush, return
\* Ok, and the guard is dropped.
WriteAllOk(w) ==
    /\ wr.pc[w] = "write"
    /\ Written(w) = FrameChunks
    /\ wr' = [wr EXCEPT !.pc[w] = "done", !.result[w] = "ok", !.queue = Tail(@)]
    /\ WrUnchanged

\* `Ok(Err(e))` and `Err(_)`: write_all fails, or the timeout drops the
\* write_all future where it is; the call logs, returns Err, and the guard
\* is dropped.  What the socket has accepted stays on the stream.
WriteAbandoned(w, why) ==
    /\ wr.pc[w] = "write"
    /\ Written(w) < FrameChunks
    /\ why = "timeout" => ~wr.broken
    /\ wr' = [wr EXCEPT !.pc[w] = "done", !.result[w] = why, !.queue = Tail(@),
                        !.broken = @ \/ why = "error"]
    /\ WrUnchanged

InitWrite ==
    /\ alias = [n \in Nodes |-> "old"]
    /\ peers = [n \in Nodes |-> EmptyMap]
    /\ conns = [n \in Nodes |-> EmptyMap]
    /\ plock = [n \in Nodes |-> FALSE]
    /\ streams = <<>>
    /\ net = {}
    /\ inbox = [n \in Nodes |-> {}]
    /\ call = [n \in Nodes |-> IdleCall]
    /\ out = <<>>
    /\ seen = [n \in Nodes |-> {}]
    /\ bcast = [n \in Nodes |-> Sleeping]
    /\ trust = <<>>
    /\ port = 7000
    /\ started = [n \in Nodes |-> n = "A"]
    /\ boot = [n \in Nodes |-> IF n = "A" THEN Booted ELSE NotCalled]
    /\ left = [env |-> 0, send |-> 0, streams |-> 0]
    /\ chain = <<>>
    /\ codec = <<>>
    /\ wr = [pc |-> [w \in Writers |-> "idle"], queue |-> <<>>, order |-> <<>>,
             wire |-> <<>>, result |-> [w \in Writers |-> "none"], broken |-> FALSE]
    /\ chan = <<>>
    /\ lk = <<>>

WriterTask(w) ==
    \/ StreamLock(w)
    \/ StreamLocked(w)
    \/ PollWrite(w)
    \/ WriteAllOk(w)
    \/ \E why \in {"error", "timeout"} : WriteAbandoned(w, why)

NextWrite == \E w \in Writers : WriterTask(w)

WriteSpec == InitWrite /\ [][NextWrite]_vars

\* ------------------------------------------------------------ ChannelSpec
\* The bounded channel behind `tx` (tokio mpsc), taken step by step: recv_loop
\* runs its match arm, awaits tx.send, then sweeps; the reader task of a
\* stream awaits tx.send with each frame; the application's consumer loop
\* takes messages with rx.recv().  chan.queue is the channel's buffer,
\* chan.waiters the senders parked in tx.send in arrival order (the channel
\* hands a freed slot to the sender that has waited longest), chan.task[t]
\* where sender t is and the message it holds.
ChanCap == 1
Senders == {"recv_loop", "reader"}
AfterSend(t) == IF t = "recv_loop" THEN "sweep" ELSE "recv"
AtRecv == [pc |-> "recv", cur |-> None]

RECURSIVE Without(_, _)
Without(q, t) ==
    IF q = <<>> THEN <<>>
    ELSE IF Head(q) = t THEN Without(Tail(q), t)
    ELSE <<Head(q)>> \o Without(Tail(q), t)

Parked(c, t) == \E i \in 1..Len(c.waiters) : c.waiters[i] = t

\* A slot is free and no sender has waited longer than t.
HasPermit(c, t) ==
    /\ Len(c.queue) < ChanCap
    /\ c.waiters = <<>> \/ Head(c.waiters) = t

\* Variant: a sender that finds no slot gives the message up and goes on
\* (what try_send would do).
WhenFullDrop(c, t) ==
    [c EXCEPT !.task[t] = [pc |-> AfterSend(t), cur |-> None],
              !.waiters = Without(@, t)]

\* `tx.send(msg).await` with no slot: the sender parks behind those already
\* waiting and keeps its message.
WhenFull(c, t) ==
    IF Parked(c, t) THEN c ELSE [c EXCEPT !.waiters = Append(@, t)]

\* The datagrams of this study: none of them makes recv_loop dial.
ChanDgrams ==
    {Encode(Peer("B", "x", "pkX")), Encode(Ping("B", "x")),
     Encode(DirectBlock("B", "A", "hello")),
     Encode(TcpConnectionRequest("B", "x", 7777)), Garbage}

\* recv_loop up to its tx.send: recv_from, from_slice, the match arm.
ChanRecv(b) ==
    /\ chan.task["recv_loop"].pc = "recv"
    /\ left.env > 0
    /\ left' = [left EXCEPT !.env = @ - 1]
    /\ \E bok \in IF Decode(b) # None /\ Decode(b)[1].type = "TcpConnectionRequest"
                  THEN BOOLEAN ELSE {TRUE} :
          out' = IF Decode(b) = None THEN <<>>
                 ELSE Replies("A", Decode(b)[1], MainAddr(ExtHost), bok)
    /\ IF Decode(b) = None
       THEN /\ peers' = [peers EXCEPT !["A"] = Undecodable(@)]
            /\ UNCHANGED <<chan, seen>>
       ELSE LET msg == Decode(b)[1]
            IN  /\ peers' = [peers EXCEPT !["A"] = RegistryAfter(@, msg, MainAddr(ExtHost))]
                /\ seen' = [seen EXCEPT !["A"] =
                               @ \cup {SenderId(msg)[i] : i \in 1..Len(SenderId(msg))}]
                /\ chan' = [chan EXCEPT !.task["recv_loop"] =
                               [pc |-> "forward", cur |-> Some(msg)]]
    /\ UNCHANGED <<lk, wr, trust, bcast, codec, chain, boot, port, alias, conns, plock,
                   streams, net, inbox, call, started>>

\* The reader task of a stream whose handshake is done reads a frame that is
\* not a handshake.
ChanRead(m) ==
    /\ chan.task["reader"].pc = "recv"
    /\ chan.frames > 0
    /\ chan' = [chan EXCEPT !.task["reader"] = [pc |-> "forward", cur |-> Some(m)],
                            !.frames = @ - 1]
    /\ out' = <<>>
    /\ UNCHANGED <<lk, wr, trust, bcast, codec, chain, boot, port, alias, peers, conns,
                   plock, streams, net, inbox, call, seen, started, left>>

\* `tx.send(..).await` of sender t: with a slot the message joins the buffer
\* and t goes on, without one t waits.
ChanForward(t) ==
    /\ chan.task[t].pc = "forward"
    /\ chan' = IF HasPermit(chan, t)
               THEN [chan EXCEPT !.queue = Append(@, chan.task[t].cur[1]),
                                 !.waiters = Without(@, t),
                                 !.task[t] = [pc |-> AfterSend(t), cur |-> None]]
               ELSE WhenFull(chan, t)
    /\ out' = <<>>
    /\ UNCHANGED <<lk, wr, trust, bcast, codec, chain, boot, port, alias, peers, conns,
                   plock, streams, net, inbox, call, seen, started, left>>

\* `maybe_gc_stale(&peers).await`, the last statement of the iteration.
ChanSweep ==
    /\ chan.task["recv_loop"].pc = "sweep"
    /\ chan' = [chan EXCEPT !.task["recv_loop"] = AtRecv]
    /\ peers' = [peers EXCEPT !["A"] = maybe_gc_stale(@)]
    /\ out' = <<>>
    /\ UNCHANGED <<lk, wr, trust, bcast, codec, chain, boot, port, alias, conns, plock,
                   streams, net, inbox, call, seen, started, left>>

\* The consumer: `while let Some(msg) = rx.recv().await`.
ChanTake ==
    /\ chan.queue # <<>>
    /\ chan' = [chan EXCEPT !.queue = Tail(@)]
    /\ inbox' = [inbox EXCEPT !["A"] = @ \cup Chat(Head(chan.queue))]
    /\ out' = <<>>
    /\ UNCHANGED <<lk, wr, trust, bcast, codec, chain, boot, port, alias, peers, conns,
                   plock, streams, net, call, seen, started, left>>

InitChan ==
    /\ port = 7000
    /\ alias = [n \in Nodes |-> "old"]
    /\ peers = [n \in Nodes |-> EmptyMap]
    /\ conns = [n \in Nodes |-> EmptyMap]
    /\ plock = [n \in Nodes |-> FALSE]
    /\ streams = <<>>
    /\ net = {}
    /\ inbox = [n \in Nodes |-> {}]
    /\ call = [n \in Nodes |-> IdleCall]
    /\ out = <<>>
    /\ seen = [n \in Nodes |-> {}]
    /\ started = [n \in Nodes |-> n = "A"]
    /\ left = [env |-> MaxEnv, send |-> 0, streams |-> 0]
    /\ boot = [n \in Nodes |-> IF n = "A" THEN Booted ELSE NotCalled]
    /\ chain = <<>>
    /\ codec = <<>>
    /\ bcast = [n \in Nodes |-> Sleeping]
    /\ trust = <<>>
    /\ wr = <<>>
    /\ lk = <<>>
    /\ chan = [queue |-> <<>>, waiters |-> <<>>, frames |-> MaxFrames,
               task |-> [t \in Senders |-> AtRecv]]

NextChan ==
    \/ \E b \in ChanDgrams : ChanRecv(b)
    \/ ChanRead(DirectBlock("B", "A", "hello"))
    \/ \E t \in Senders : ChanForward(t)
    \/ ChanSweep
    \/ ChanTake
    \/ Tick

\* The runtime polls a task that can go on, and the application's consumer
\* loop keeps taking.
ChannelSpec ==
    /\ InitChan
    /\ [][NextChan]_vars
    /\ WF_vars(ChanTake)
    /\ \A t \in Senders : WF_vars(ChanForward(t))

\* --------------------------------------------------------------- LockSpec
\* The locks of one node and the calls and tasks that take them, each as the
\* sequence of acquisitions and releases its code performs on its longest
\* path: `peers` and `alias` (Mutex), `conns` (the connections RwLock, "r"
\* for read() and "x" for write()) and `stream` (the Mutex around the stream
\* of the session).  A guard is released where it goes out of scope.
LockAcq(l, m) == [op |-> "acq", lock |-> l, mode |-> m]
LockRel(l) == [op |-> "rel", lock |-> l, mode |-> "-"]

has_tcp_connection_locks == <<LockAcq("conns", "r"), LockRel("conns")>>

send_via_tcp_locks ==
    <<LockAcq("conns", "r"), LockAcq("stream", "x"), LockRel("stream"), LockRel("conns")>>

send_direct_block_locks ==
    <<LockAcq("peers", "x"), LockAcq("alias", "x"), LockRel("alias"), LockRel("peers")>>

request_tcp_connection_locks ==
    <<LockAcq("peers", "x"), LockAcq("alias", "x"), LockRel("alias"),
      LockAcq("conns", "x"), LockRel("conns"), LockRel("peers")>>

\* send_message: the check, the upgrade, the check again, the stream send
\* and, when that fails, the datagram.
send_message_locks ==
    has_tcp_connection_locks \o request_tcp_connection_locks \o
    has_tcp_connection_locks \o send_via_tcp_locks \o send_direct_block_locks

list_peers_locks == <<LockAcq("peers", "x"), LockRel("peers")>>

\* set_alias, then the ping_now it calls.
set_alias_locks ==
    <<LockAcq("alias", "x"), LockRel("alias"), LockAcq("alias", "x"), LockRel("alias")>>

\* Variant: the read guard of the session table is still held when the
\* registry is locked.
update_peer_connection_type_nested ==
    <<LockAcq("conns", "r"), LockAcq("peers", "x"), LockRel("peers"), LockRel("conns")>>

\* has_tcp_connection returns (its read guard is gone) before peers.lock().
update_peer_connection_type_locks ==
    has_tcp_connection_locks \o <<LockAcq("peers", "x"), LockRel("peers")>>

\* One iteration of recv_loop through the arm that takes the most locks
\* (TcpConnectionResponse, accepted), then the stale sweep; the Ping arm
\* takes a prefix of these.
recv_loop_locks ==
    <<LockAcq("peers", "x"), LockRel("peers"), LockAcq("alias", "x"), LockRel("alias"),
      LockAcq("conns", "x"), LockRel("conns"), LockAcq("peers", "x"), LockRel("peers")>>

\* A reader task: the activity update after a forwarded frame, then the
\* insert and the remove after its loop.
reader_locks ==
    <<LockAcq("conns", "x"), LockRel("conns"), LockAcq("conns", "x"), LockRel("conns"),
      LockAcq("conns", "x"), LockRel("conns")>>

LockTasks ==
    {"send_message", "request_tcp_connection", "list_peers", "set_alias",
     "update_peer_connection_type", "recv_loop", "reader"}

LockProgram(t) ==
    CASE t = "send_message" -> send_message_locks
      [] t = "request_tcp_connection" -> request_tcp_connection_locks
      [] t = "list_peers" -> list_peers_locks
      [] t = "set_alias" -> set_alias_locks
      [] t = "update_peer_connection_type" -> update_peer_connection_type_locks
      [] t = "recv_loop" -> recv_loop_locks
      [] t = "reader" -> reader_locks

\* The guards a task holds after the first k operations of its program, in
\* the order it took them.
RECURSIVE HeldAfter(_, _)
HeldAfter(prog, k) ==
    IF k = 0 THEN <<>>
    ELSE LET before == HeldAfter(prog, k - 1)
             o == prog[k]
         IN  IF o.op = "acq" THEN Append(before, o)
             ELSE SelectSeq(before, LAMBDA h : h.lock # o.lock)

LockHeld(t) == HeldAfter(LockProgram(t), lk.pc[t] - 1)
LockDone(t) == lk.pc[t] > Len(LockProgram(t))
LockNextOp(t) == LockProgram(t)[lk.pc[t]]
Holds(t, l, m) == \E i \in 1..Len(LockHeld(t)) : LockHeld(t)[i].lock = l /\ LockHeld(t)[i].mode = m
WaitsFor(t, l, m) ==
    ~LockDone(t) /\ LockNextOp(t) = LockAcq(l, m)

\* A Mutex and write() need the lock free; read() needs no writer inside and,
\* the RwLock being write-preferring, no writer waiting.
LockGranted(t, o) ==
    IF o.mode = "x"
    THEN \A u \in LockTasks : ~Holds(u, o.lock, "x") /\ ~Holds(u, o.lock, "r")
    ELSE \A u \in LockTasks \ {t} : ~Holds(u, o.lock, "x") /\ ~WaitsFor(u, o.lock, "x")

LockCanStep(t) ==
    /\ ~LockDone(t)
    /\ LockNextOp(t).op = "acq" => LockGranted(t, LockNextOp(t))

\* Task t performs the next operation of its program.
LockStep(t) ==
    /\ LockCanStep(t)
    /\ lk' = [lk EXCEPT !.pc[t] = @ + 1]
    /\ out' = <<>>
    /\ UNCHANGED <<chan, wr, trust, bcast, codec, chain, boot, port, alias, peers, conns,
                   plock, streams, net, inbox, call, seen, started, left>>

InitLock ==
    /\ port = 7000
    /\ alias = [n \in Nodes |-> "old"]
    /\ peers = [n \in Nodes |-> EmptyMap]
    /\ conns = [n \in Nodes |-> EmptyMap]
    /\ plock = [n \in Nodes |-> FALSE]
    /\ streams = <<>>
    /\ net = {}
    /\ inbox = [n \in Nodes |-> {}]
    /\ call = [n \in Nodes |-> IdleCall]
    /\ out = <<>>
    /\ seen = [n \in Nodes |-> {}]
    /\ started = [n \in Nodes |-> n = "A"]
    /\ left = [env |-> 0, send |-> 0, streams |-> 0]
    /\ boot = [n \in Nodes |-> IF n = "A" THEN Booted ELSE NotCalled]
    /\ chain = <<>>
    /\ codec = <<>>
    /\ bcast = [n \in Nodes |-> Sleeping]
    /\ trust = <<>>
    /\ wr = <<>>
    /\ chan = <<>>
    /\ lk = [pc |-> [t \in LockTasks |-> 1]]

NextLock == \E t \in LockTasks : LockStep(t)

LockSpec == InitLock /\ [][NextLock]_vars

\* ------------------------------------------------------------------ claims
\* The datagrams recv_loop of node n may be handed in one step: those in
\* flight and those host C sends.
Arrivals(n) ==
    {d \in net : d.dst = MainAddr(n)} \cup
    {[bytes |-> b, src |-> MainAddr(ExtHost), dst |-> MainAddr(n)] : b \in InjectBytes}

RecvStep(n, d) == \E cok, hsok \in BOOLEAN : RecvLoop(n, d, cok, hsok)

Decoded(d, t) == Decode(d.bytes) # None /\ Decode(d.bytes)[1].type = t

\* A step of the send_message call that node n is running.
CallStep(n) == Running(n) /\ call'[n] # call[n]

Unknown(n, p) == p \notin DOMAIN peers[n] /\ ~has_tcp_connection(n, p)

\* The one DirectBlock datagram of the running call of n, addressed to the
\* last_addr of the peer's entry.
DirectDgram(n) ==
    Dgram(DirectBlock(n, call[n].peer, call[n].payload), EphAddr(n),
          peers[n][call[n].peer].last_addr)

\* C1: while the peer of a send_message call has neither a registry entry nor
\* a stream session, no step of the call emits a datagram or changes the
\* registry, the sessions or the streams, and a step that ends the call ends
\* it with "peer not found", no datagram and no frame sent.
C1_UnknownPeer ==
    [][\A n \in Nodes :
         (call'[n] # call[n] /\ call'[n].pc # "idle" /\ Unknown(n, call'[n].peer)) =>
            /\ peers' = peers /\ conns' = conns /\ streams' = streams
            /\ net' = net /\ out' = <<>>
            /\ call'[n].pc = "done" =>
                  /\ call'[n].result = "peer_not_found"
                  /\ call'[n].dgrams = <<>>
                  /\ call'[n].frames = <<>>]_vars

C1_Witness ==
    /\ call["A"].pc = "done"
    /\ call["A"].result = "peer_not_found"
    /\ call["A"].upgrade = "peer_not_found"
    /\ ~call["A"].known
    /\ Unknown("A", call["A"].peer)

\* C2: when a session for the peer exists and the stream write succeeds, the
\* call writes exactly one frame, a DirectBlock from the node to the peer with
\* the payload, on the session's stream, emits no datagram, and returns
\* success.
C2_StreamOnly ==
    [][\A n \in Nodes :
         (send_via_tcp(n, "ok") /\ has_tcp_connection(n, call[n].peer)) =>
            /\ call'[n].pc = "done"
            /\ call'[n].result = "ok"
            /\ call'[n].frames = <<<<conns[n][call[n].peer].stream,
                                     DirectBlock(n, call[n].peer, call[n].payload)>>>>
            /\ call'[n].writes = 1
            /\ call'[n].dgrams = <<>>
            /\ out' = <<>>
            /\ net' = net]_vars

C2_Witness ==
    /\ call["A"].pc = "done"
    /\ call["A"].result = "ok"
    /\ Len(call["A"].frames) = 1
    /\ call["A"].dgrams = <<>>
    /\ has_tcp_connection("A", call["A"].peer)

\* The datagram path of the running call of n ran and sent its datagram.
FellBackOk(n) ==
    /\ call'[n].pc = "done"
    /\ call'[n].result = "ok"
    /\ out' = <<DirectDgram(n)>>
    /\ call'[n].dgrams = out'

\* The datagram path of the running call of n ran and failed with `why`.
FellBackErr(n, why) ==
    /\ call'[n].pc = "done"
    /\ call'[n].result = why
    /\ out' = <<>>
    /\ call'[n].dgrams = <<>>
    /\ net' = net

\* The datagram path runs with no stream attempt made before it (no session
\* existed after the grace period) and the peer in the registry.
C3_Case(n) ==
    /\ \E ok \in BOOLEAN : send_direct_block(n, ok)
    /\ call[n].writes = 0
    /\ call[n].peer \in DOMAIN peers[n]

\* C3 as stated: with a registry entry for the peer and no session after the
\* grace period, the call emits exactly one DirectBlock datagram to the
\* entry's last_addr and returns success.
C3_AlwaysOneDatagram == [][\A n \in Nodes : C3_Case(n) => FellBackOk(n)]_vars

\* C3, amended: with a registry entry for the peer and no session after the
\* grace period, the call emits exactly one DirectBlock datagram to the
\* entry's last_addr and returns success when binding the socket and sending
\* succeed; when either fails it returns that I/O error and emits nothing.
C3_OneDatagramOrIoError ==
    [][\A n \in Nodes :
         /\ (C3_Case(n) /\ send_direct_block(n, TRUE)) => FellBackOk(n)
         /\ (C3_Case(n) /\ send_direct_block(n, FALSE)) => FellBackErr(n, "io_error")]_vars

C3_Witness ==
    /\ call["A"].pc = "done"
    /\ call["A"].result = "ok"
    /\ call["A"].writes = 0
    /\ call["A"].peer \in DOMAIN peers["A"]
    /\ ~has_tcp_connection("A", call["A"].peer)
    /\ out = <<Dgram(DirectBlock("A", call["A"].peer, call["A"].payload), EphAddr("A"),
                     peers["A"][call["A"].peer].last_addr)>>
    /\ call["A"].dgrams = out

WriteFailures == {"error", "timeout"}

\* C4 as stated: a call whose stream write failed ends having made one stream
\* attempt, sent no frame, sent exactly one datagram and returned success.
C4_AlwaysFallsBackToDatagram ==
    \A n \in Nodes :
      (call[n].pc = "done" /\ call[n].werr \in WriteFailures) =>
         /\ call[n].writes = 1
         /\ call[n].frames = <<>>
         /\ call[n].result = "ok"
         /\ Len(call[n].dgrams) = 1

\* C4, amended: a stream write that fails with an error or a timeout sends no
\* frame and is not tried again; the call goes to the datagram path, which
\* runs once: with a registry entry for the peer and a working socket it
\* emits exactly one DirectBlock datagram to the entry's last_addr and returns
\* success, without an entry it returns "peer not found" and with a failing
\* socket the I/O error, emitting nothing.
C4_OneAttemptEachTransport ==
    [][\A n \in Nodes :
         /\ ((\E w \in WriteFailures : send_via_tcp(n, w))
               /\ has_tcp_connection(n, call[n].peer)) =>
                /\ call'[n].pc = "udp"
                /\ call'[n].writes = 1
                /\ call'[n].frames = <<>>
                /\ call'[n].result = "none"
                /\ out' = <<>>
         /\ (CallStep(n) /\ call[n].werr \in WriteFailures) =>
                /\ call[n].pc = "udp"
                /\ call'[n].writes = 1
                /\ call'[n].frames = <<>>
                /\ IF call[n].peer \notin DOMAIN peers[n]
                   THEN FellBackErr(n, "peer_not_found")
                   ELSE IF send_direct_block(n, TRUE) THEN FellBackOk(n)
                   ELSE FellBackErr(n, "io_error")]_vars

C4_Witness ==
    /\ call["A"].pc = "done"
    /\ call["A"].werr \in WriteFailures
    /\ call["A"].writes = 1
    /\ call["A"].frames = <<>>
    /\ call["A"].result = "ok"
    /\ Len(call["A"].dgrams) = 1
    /\ has_tcp_connection("A", call["A"].peer)

\* The outcomes of request_tcp_connection that leave the call without a
\* session: the request datagram was not sent, no tcp_port is known for the
\* peer (no response arrived), the connect was refused or timed out, the
\* handshake write failed.
FailedUpgrades == {"request_not_sent", "no_port", "refused", "handshake_failed"}

\* C6 as stated: a call for a peer that was in the registry when the call
\* started, whose upgrade attempt failed and which made no stream attempt,
\* ends with success and exactly one datagram sent.
C6_AlwaysDatagramAfterFailedUpgrade ==
    \A n \in Nodes :
      (call[n].pc = "done" /\ call[n].known /\ call[n].upgrade \in FailedUpgrades
         /\ call[n].writes = 0) =>
         /\ call[n].result = "ok"
         /\ Len(call[n].dgrams) = 1

\* C6, amended: no step of the upgrade attempt ends the call or sets its
\* result, whatever the attempt's outcome; after a failed attempt with no
\* session the call goes to the datagram path, which emits exactly one
\* DirectBlock datagram to the entry's last_addr and returns success if the
\* peer still has a registry entry and the socket works, and otherwise
\* returns "peer not found" (entry evicted during the grace period) or the
\* I/O error, emitting nothing.
C6_UpgradeNeverEndsCall ==
    [][\A n \in Nodes :
         /\ (CallStep(n) /\ call[n].pc \in {"request", "dial"}) =>
                /\ call'[n].pc \in {"dial", "check2"}
                /\ call'[n].result = "none"
                /\ call'[n].dgrams = <<>>
         /\ (CallStep(n) /\ call[n].pc = "check2" /\ call[n].upgrade \in FailedUpgrades
               /\ ~has_tcp_connection(n, call[n].peer)) =>
                call'[n] = [call[n] EXCEPT !.pc = "udp"]
         /\ (CallStep(n) /\ call[n].pc = "udp" /\ call[n].upgrade \in FailedUpgrades
               /\ call[n].writes = 0) =>
                IF call[n].peer \notin DOMAIN peers[n]
                THEN FellBackErr(n, "peer_not_found")
                ELSE IF send_direct_block(n, TRUE) THEN FellBackOk(n)
                ELSE FellBackErr(n, "io_error")]_vars

C6_Witness ==
    /\ call["A"].pc = "done"
    /\ call["A"].known
    /\ call["A"].upgrade \in {"refused", "handshake_failed"}
    /\ call["A"].writes = 0
    /\ call["A"].result = "ok"
    /\ Len(call["A"].dgrams) = 1

\* C7: the registry of a node only holds ids that appeared as the sender id
\* of a datagram its recv_loop decoded, and only a recv_loop iteration adds an
\* id to it.
C7_OnlySeenSenders ==
    /\ [](\A n \in Nodes : list_peers(n) \subseteq seen[n])
    /\ [][\A n \in Nodes :
            list_peers(n)' \subseteq list_peers(n) \/
            \E d \in Arrivals(n) :
               /\ RecvStep(n, d)
               /\ Decode(d.bytes) # None
               /\ SenderId(Decode(d.bytes)[1]) # None
               /\ list_peers(n)' \subseteq
                     list_peers(n) \cup {SenderId(Decode(d.bytes)[1])[1]}]_vars

C7_Witness ==
    /\ "B" \in list_peers("A")
    /\ "C" \in seen["A"] \ list_peers("A")
    /\ call["A"].pc = "done"
    /\ call["A"].peer = "C"

\* C8: the recv_loop iteration that decodes a Peer datagram leaves one entry
\* under the announced id, with the announced alias and public key, age zero
\* and last_addr the source address of the datagram, and adds no other entry.
C8_PresenceUpsert ==
    [][\A n \in Nodes : \A d \in Arrivals(n) :
         (Decoded(d, "Peer") /\ RecvStep(n, d)) =>
            LET m == Decode(d.bytes)[1] IN
            /\ m.id \in DOMAIN peers'[n]
            /\ peers'[n][m.id].alias = m.alias
            /\ peers'[n][m.id].pubkey = m.pubkey
            /\ peers'[n][m.id].age = 0
            /\ peers'[n][m.id].last_addr = d.src
            /\ DOMAIN peers'[n] \subseteq DOMAIN peers[n] \cup {m.id}]_vars

C8_Witness ==
    /\ "B" \in DOMAIN peers["A"]
    /\ peers["A"]["B"].alias = "x"
    /\ peers["A"]["B"].pubkey = "pkX"
    /\ peers["A"]["B"].age = 0
    /\ peers["A"]["B"].last_addr = MainAddr(ExtHost)
    /\ peers["A"]["B"].tcp_port # None

C5_DirectBlockDelivered ==
    (/\ call["A"].pc = "done"
     /\ call["A"].known
     /\ call["A"].peer = "B"
     /\ conns["A"] = EmptyMap /\ conns["B"] = EmptyMap
     /\ net = {}) =>
        DirectBlock("A", "B", call["A"].payload) \in inbox["B"]

\* C9 as stated: an entry that has become older than PEER_STALE_SECS does not
\* stay in the registry in that condition for ever: it is eventually removed
\* (or refreshed by traffic from the peer), whether or not another datagram
\* reaches the node.
C9_StaleEventuallyPurged ==
    \A p \in Ids :
       (p \in list_peers("A") /\ peers["A"][p].age > PEER_STALE_SECS)
          ~> (p \notin list_peers("A") \/ peers["A"][p].age <= PEER_STALE_SECS)

\* C11 as stated: a stream accepted by a node whose first line is not a
\* TcpHandshake is never the stream of an entry of the node's connection
\* table, whatever lines follow and whenever it closes.
C11_NoSessionWithoutLeadingHandshake ==
    \A sid \in DOMAIN streams :
       (/\ streams[sid].srv \in Nodes
        /\ streams[sid].sent # <<>>
        /\ streams[sid].sent[1].type # "TcpHandshake") =>
          \A p \in DOMAIN conns[streams[sid].srv] :
             ~(/\ conns[streams[sid].srv][p].stream = sid
               /\ conns[streams[sid].srv][p].side = "srv"
               /\ conns[streams[sid].srv][p].is_connected)

\* C12 as stated, its first part: while the reader task of an accepted stream
\* has read a TcpHandshake from P and has not yet seen the stream end, the
\* node has a connected session for P.
C12_RegisteredWhileOpen ==
    \A sid \in DOMAIN streams :
       (/\ streams[sid].srv \in Nodes
        /\ streams[sid].rhs
        /\ streams[sid].rpc = "read") =>
          has_tcp_connection(streams[sid].srv, streams[sid].rpeer[1])

\* The far end of the stream of n's session for p has been closed.
SessionAtEof(n, p) ==
    /\ p \in DOMAIN conns[n]
    /\ LET c == conns[n][p] IN
         IF c.side = "cli" THEN ~streams[c.stream].srvOpen
         ELSE ~streams[c.stream].cliOpen

\* C13 as stated: once the far end of a registered session's stream is
\* closed, the session's entry is eventually removed from the connection
\* table, so that has_tcp_connection for that peer becomes false.
C13_SessionRemovedAfterEof ==
    \A p \in Ids : SessionAtEof("A", p) ~> ~has_tcp_connection("A", p)

\* C15: two started nodes on the same discovery port, with no datagram lost
\* and their tasks scheduled fairly, eventually each have the other in
\* list_peers.
C15_MutualDiscovery == <>("B" \in list_peers("A") /\ "A" \in list_peers("B"))

C15_Witness ==
    /\ "B" \in list_peers("A") /\ "A" \in list_peers("B")
    /\ peers["A"]["B"].last_addr = MainAddr("B")
    /\ peers["B"]["A"].last_addr = MainAddr("A")
    /\ peers["A"]["B"].pubkey = PubKey("B")

\* A discovery message (Peer, Ping or Pong) that node n handed to a socket.
Announces(n, d) ==
    /\ d.src[1] = n
    /\ Decoded(d, "Peer") \/ Decoded(d, "Ping") \/ Decoded(d, "Pong")

AliasOf(d) == Decode(d.bytes)[1].alias

SetAliasStep(n) == \E k \in 0..2 : set_alias(n, "new", k)

Announce(n, al) ==
    <<Dgram(Peer(n, al, PubKey(n)), EphAddr(n), BcastAddr),
      Dgram(Ping(n, al), EphAddr(n), BcastAddr)>>

\* C16 as stated: set_alias(new) stores the alias and broadcasts at once one
\* Peer and one Ping carrying new, and every Peer, Ping and Pong the node
\* emits carries the alias that is current when it is emitted.
C16_AnnouncesCurrentAlias ==
    [][/\ SetAliasStep("A") =>
            alias'["A"] = "new" /\ out' = Announce("A", "new")
       /\ \A i \in 1..Len(out') :
            Announces("A", out'[i]) => AliasOf(out'[i]) = alias'["A"]]_vars

\* C16 as the code has it: set_alias(new) always stores the alias and its
\* immediate announce is the Peer then the Ping carrying new, cut short at
\* the first send that fails; a Peer or Ping of the periodic broadcaster
\* carries the alias read at the start of its tick, and every other Peer,
\* Ping or Pong the alias current when it is emitted.
C16_AliasReadAtTick ==
    [][/\ SetAliasStep("A") =>
            /\ alias'["A"] = "new"
            /\ \E k \in 0..2 : out' = SubSeq(Announce("A", "new"), 1, k)
       /\ \A i \in 1..Len(out') :
            Announces("A", out'[i]) =>
                AliasOf(out'[i]) =
                    IF out'[i].src = MainAddr("A") /\ ~Decoded(out'[i], "Pong")
                    THEN bcast["A"].alias_now
                    ELSE alias'["A"]]_vars

\* The broadcaster has just sent a Peer that carries the alias the node had
\* before the rename.
C16_Witness ==
    /\ alias["A"] = "new"
    /\ out = <<Dgram(Peer("A", "old", PubKey("A")), MainAddr("A"), BcastAddr)>>

\* C17 as stated: when the wildcard bind and the loopback bind both fail,
\* start returns a BindError to its caller and has spawned no receive loop,
\* no broadcaster and no stream listener.
C17_BindErrorSurfaced ==
    \A n \in Nodes :
        boot[n].pc = "returned" /\ boot[n].bound = "none" =>
            boot[n].ret = "BindError" /\ boot[n].tasks = {} /\ ~started[n]

\* C18: a start() call that has begun returns, whether its binds succeed or
\* fail, and when a bind succeeded it has spawned the receive loop, the
\* periodic broadcaster and the stream listener by then.
C18_StartReturns ==
    /\ \A n \in Nodes : (boot[n].pc # "new") ~> (boot[n].pc = "returned")
    /\ [](\A n \in Nodes :
            boot[n].pc = "returned" =>
                boot[n].tasks = IF boot[n].bound = "none" THEN {} ELSE Tasks)

\* start() has returned on a node whose tasks run, and on one that could
\* not bind.
C18_Witness ==
    /\ boot["A"].pc = "returned" /\ boot["A"].tasks = Tasks /\ "A" \in DOMAIN peers["A"]
    /\ boot["B"].pc = "returned" /\ boot["B"].bound = "none"

InRange(x) == x[1] = "num" /\ 0 <= x[2] /\ x[2] <= 100

\* C21 as stated: after any sequence of upsert_peer, update_trust and
\* decay_trust every tracked peer has a trust score within 0..100, and
\* update_trust stores the sum clamped to that range.
C21_ScoreInRange ==
    \A id \in DOMAIN trust.peers : InRange(trust.peers[id].trust_score)

\* The reader task of stream sid took a line off the stream.
FrameStep(sid) ==
    /\ streams[sid].rpc = "read"
    /\ streams'[sid].rpc = "read"
    /\ Len(streams'[sid].wire) < Len(streams[sid].wire)

\* C22 as stated: a datagram of any variant that claims id P, and a frame
\* read on a handshaken stream from P, each set P's last_seen to now, so
\* that P is not evicted while it keeps sending.
C22_TrafficRefreshesLastSeen ==
    [][/\ \A d \in Arrivals("A") :
            (/\ Decode(d.bytes) # None
             /\ SenderId(Decode(d.bytes)[1]) # None
             /\ RecvStep("A", d)) =>
                /\ SenderId(Decode(d.bytes)[1])[1] \in list_peers("A")'
                /\ peers'["A"][SenderId(Decode(d.bytes)[1])[1]].age = 0
       /\ \A sid \in DOMAIN streams :
            (/\ FrameStep(sid)
             /\ Head(streams[sid].wire).type \in Tags
             /\ streams[sid].rhs
             /\ streams[sid].rpeer # None
             /\ streams[sid].rpeer[1] \in list_peers("A")) =>
                /\ streams[sid].rpeer[1] \in list_peers("A")'
                /\ peers'["A"][streams[sid].rpeer[1]].age = 0]_vars

\* The send call of node n has just had a stream write fail (I/O error or
\* timeout) on a session it found connected.
WriteFailed(n) ==
    /\ call[n].pc = "tcp"
    /\ has_tcp_connection(n, call[n].peer)
    /\ call'[n].writes = call[n].writes + 1
    /\ call'[n].werr \in {"error", "timeout"}

\* C23 as stated: when a write on the stream session of P fails, the entry
\* of P leaves the connection table and has_tcp_connection(P) is false from
\* that step on, so that later sends do not try the stream.
C23_FailedWriteDropsSession ==
    [][\A n \in Nodes :
         WriteFailed(n) =>
            /\ call[n].peer \notin DOMAIN conns'[n]
            /\ ~has_tcp_connection(n, call[n].peer)']_vars

\* C24: a line that the reader task of an inbound stream takes before it has
\* seen a TcpHandshake on that stream, and that is not a TcpHandshake, is
\* dropped: nothing goes to the application channel and neither the peer
\* registry nor the connection table changes.
C24_PreHandshakeFramesDiscarded ==
    [][\A sid \in DOMAIN streams :
         (/\ FrameStep(sid)
          /\ ~streams[sid].rhs
          /\ Head(streams[sid].wire).type # "TcpHandshake") =>
            /\ inbox' = inbox
            /\ peers' = peers
            /\ conns' = conns
            /\ ~streams'[sid].rhs /\ streams'[sid].rpeer = None]_vars

\* The reader task has taken a DirectBlock that came first on its stream,
\* and nothing was delivered or registered.
C24_Witness ==
    /\ streams # <<>>
    /\ streams[1].rpc = "read"
    /\ streams[1].sent # <<>>
    /\ streams[1].sent[1].type = "DirectBlock"
    /\ Len(streams[1].wire) < Len(streams[1].sent)
    /\ ~streams[1].rhs
    /\ inbox["A"] = {}
    /\ conns["A"] = EmptyMap

\* C25: a datagram that does not decode, and a line on a stream that does
\* not decode, are dropped: the peer registry, the connection table and the
\* application channel stay as they were, no datagram is sent in reply, and
\* the loop that took it is where it was, ready for the next message.
C25_UndecodableDropped ==
    [][/\ \A d \in Arrivals("A") :
            (Decode(d.bytes) = None /\ RecvStep("A", d)) =>
                /\ peers' = peers /\ conns' = conns /\ inbox' = inbox
                /\ streams' = streams /\ out' = <<>>
                /\ net' \subseteq net
                /\ started' = started
       /\ \A sid \in DOMAIN streams :
            (FrameStep(sid) /\ Head(streams[sid].wire).type \notin Tags) =>
                /\ peers' = peers /\ conns' = conns /\ inbox' = inbox
                /\ streams' = [streams EXCEPT ![sid].wire = Tail(@)]]_vars

\* After a line that did not decode, the reader task took the DirectBlock
\* that followed it and forwarded it; and a datagram that did not decode
\* left a stale entry in the registry.
C25_Witness ==
    /\ streams # <<>>
    /\ streams[1].sent =
          <<TcpHandshake("B", "x", "pkX"), BadLine, DirectBlock("B", "A", "hello")>>
    /\ streams[1].wire = <<>>
    /\ DirectBlock("B", "A", "hello") \in inbox["A"]
    /\ left.env = 0
    /\ "B" \in list_peers("A") /\ peers["A"]["B"].age > PEER_STALE_SECS

\* C26: a legacy Block datagram decodes, and the iteration of recv_loop that
\* takes it upserts nothing in the peer registry (no entry is added or
\* changed; the stale sweep that ends every iteration may evict), leaves the
\* connection table and the streams as they were, and sends no datagram.
C26_LegacyBlockIgnored ==
    [][\A d \in Arrivals("A") :
          (d.bytes = Encode(Block("chain")) /\ RecvStep("A", d)) =>
              /\ Decode(d.bytes) = Some(Block("chain"))
              /\ DOMAIN peers'["A"] \subseteq DOMAIN peers["A"]
              /\ \A id \in DOMAIN peers'["A"] : peers'["A"][id] = peers["A"][id]
              /\ conns' = conns /\ streams' = streams
              /\ seen' = seen
              /\ out' = <<>> /\ net' \subseteq net]_vars

\* Host C sent two datagrams, B was announced and has gone stale and is out
\* of the registry again while a session for B stays: of the datagrams C may
\* send only the Block runs the stale sweep without refreshing B or adding
\* an entry.
C26_Witness ==
    /\ left.env = 0
    /\ seen["A"] = {"B"}
    /\ peers["A"] = EmptyMap
    /\ has_tcp_connection("A", "B")

\* The datagram r is an accepted TcpConnectionResponse of node n, unicast
\* to the address src.
AcceptedResponseTo(r, n, src) ==
    /\ r.dst = src
    /\ Decoded(r, "TcpConnectionResponse")
    /\ Decode(r.bytes)[1].from = n
    /\ Decode(r.bytes)[1].accepted

\* The part of C27 that does not depend on the reply: after the iteration
\* the entry of `from` carries the advertised port, and the responder has
\* opened no stream and registered no session.
RequestRecorded(d) ==
    LET msg == Decode(d.bytes)[1]
    IN  /\ msg.from \in DOMAIN peers'["A"]
        /\ peers'["A"][msg.from].tcp_port = Some(msg.tcp_port)
        /\ conns' = conns /\ streams' = streams

\* C27 as stated: every TcpConnectionRequest taken by recv_loop records the
\* advertised port and sends exactly one accepted response to the source,
\* known sender or not, and opens no stream.
C27_AlwaysOneResponse ==
    [][\A d \in Arrivals("A") :
          (Decoded(d, "TcpConnectionRequest") /\ RecvStep("A", d)) =>
              /\ RequestRecorded(d)
              /\ Len(out') = 1
              /\ AcceptedResponseTo(out'[1], "A", d.src)]_vars

\* C27, amended: every TcpConnectionRequest taken by recv_loop records the
\* advertised port and opens no stream, known sender or not; it sends at
\* most one datagram, and what it sends is an accepted response unicast to
\* the source (it sends none when the socket for the reply cannot be bound).
C27_AtMostOneResponse ==
    [][\A d \in Arrivals("A") :
          (Decoded(d, "TcpConnectionRequest") /\ RecvStep("A", d)) =>
              /\ RequestRecorded(d)
              /\ Len(out') <= 1
              /\ \A i \in 1..Len(out') : AcceptedResponseTo(out'[i], "A", d.src)]_vars

\* The first datagram A ever took is a request under B's id: B, unknown
\* until then, is in the registry with the advertised port, the accepted
\* response to host C has just been sent, and A has no session and no
\* stream.
C27_Witness ==
    /\ left.env = MaxEnv - 1
    /\ seen["A"] = {"B"}
    /\ "B" \in list_peers("A") /\ peers["A"]["B"].tcp_port = Some(7777)
    /\ Len(out) = 1 /\ AcceptedResponseTo(out[1], "A", MainAddr(ExtHost))
    /\ conns["A"] = EmptyMap /\ streams = <<>>

\* C28: when recv_loop takes an accepted TcpConnectionResponse and
\* registers a session for its sender, that session is connected, its stream
\* goes from this node to the host the response came from, and the node's
\* own TcpHandshake is the one frame written on it (nothing has been read
\* from the peer); a response with accepted = false opens no stream and
\* registers nothing.
C28_SessionOnlyAfterHandshake ==
    [][\A d \in Arrivals("A") :
          (Decoded(d, "TcpConnectionResponse") /\ RecvStep("A", d)) =>
              LET msg == Decode(d.bytes)[1]
              IN  IF msg.accepted
                  THEN conns' # conns =>
                         /\ has_tcp_connection("A", msg.from)'
                         /\ LET st == streams'[conns'["A"][msg.from].stream]
                            IN  /\ st.cli = "A" /\ st.srv = d.src[1]
                                /\ st.sent = <<TcpHandshake("A", alias["A"], PubKey("A"))>>
                                /\ ~st.rhs
                  ELSE conns' = conns /\ streams' = streams]_vars

\* The pieces of one caller are next to each other on the stream.
NoInterleave ==
    \A i, j, k \in 1..Len(wr.wire) :
        (i < j /\ j < k /\ wr.wire[i][1] = wr.wire[k][1]) => wr.wire[j][1] = wr.wire[i][1]

\* The callers' pieces are on the stream in the order in which the callers
\* acquired the mutex.
AcquiredAt(w) == CHOOSE i \in 1..Len(wr.order) : wr.order[i] = w

InLockOrder ==
    \A i, j \in 1..Len(wr.wire) :
        i < j => AcquiredAt(wr.wire[i][1]) <= AcquiredAt(wr.wire[j][1])

\* Where the pieces of one caller end on the stream and those of the next
\* begin, the frame of the first is complete: every frame that is followed
\* by another was written whole.
WrittenWhole ==
    \A i \in 1..Len(wr.wire) :
        (i < Len(wr.wire) /\ wr.wire[i + 1][1] # wr.wire[i][1]) =>
            wr.wire[i][2] = FrameChunks

\* C29: concurrent send_via_tcp calls on one session never interleave the
\* bytes of their frames: the pieces of a frame are contiguous on the stream,
\* a frame is on the stream whole before the next one begins, and the frames
\* are in the order in which the callers acquired the stream mutex.
C29_FramesWholeInLockOrder == NoInterleave /\ InLockOrder /\ WrittenWhole

\* What the stream mutex does give: contiguous pieces, in acquisition order.
SerializedUnderLock == NoInterleave /\ InLockOrder

\* C30: every send_message call returns: from the moment it is running it
\* reaches its return (Ok or Err), also when the write on the peer's session
\* is never accepted, because the write is given up at TCP_MESSAGE_TIMEOUT
\* and the call goes on to send_direct_block.
C30_SendReturns == Running("A") ~> (call["A"].pc = "done")

\* The call has returned after one stream write that ran into the timeout:
\* no frame reached the stream, and the DirectBlock went out as a datagram.
C30_Witness ==
    /\ call["A"].pc = "done"
    /\ call["A"].werr = "timeout"
    /\ call["A"].writes = 1
    /\ call["A"].frames = <<>>
    /\ Len(call["A"].dgrams) = 1
    /\ call["A"].result = "ok"

\* The variants that carry a public key, and those that carry an alias.
CarriesPubkey == {"Peer", "TcpHandshake"}
CarriesAlias == {"Peer", "Ping", "Pong", "TcpConnectionRequest", "TcpHandshake"}

\* C39: when recv_loop upserts an entry that exists already, a datagram that
\* carries no public key leaves the recorded public key as it was, and one
\* that carries no alias leaves the recorded alias as it was.
C39_UpsertKeepsMissingFields ==
    [][\A d \in Arrivals("A") :
          (Decode(d.bytes) # None /\ Decode(d.bytes)[1].type # "Block"
              /\ RecvStep("A", d)) =>
              LET msg == Decode(d.bytes)[1]
                  id == UpsertId(msg)
              IN  id \in DOMAIN peers["A"] =>
                    /\ id \in DOMAIN peers'["A"]
                    /\ msg.type \notin CarriesPubkey =>
                          peers'["A"][id].pubkey = peers["A"][id].pubkey
                    /\ msg.type \notin CarriesAlias =>
                          peers'["A"][id].alias = peers["A"][id].alias]_vars

\* C38: the tcp_port in every TcpConnectionRequest and TcpConnectionResponse
\* a node sends is the port its TCP listener is bound to, the configured
\* discovery port plus TCP_PORT_OFFSET.
C38_AdvertisedPortIsListenerPort ==
    \A i \in 1..Len(out) :
        LET m == Decode(out[i].bytes)[1]
        IN  m.type \in {"TcpConnectionRequest", "TcpConnectionResponse"} =>
                /\ CanConnect(m.from, m.tcp_port)
                /\ m.tcp_port = port + TCP_PORT_OFFSET

\* C33: the last_addr recorded for a peer is an address on which the peer's
\* recv_loop listens, its host at the discovery port.
C33_LastAddrIsListening ==
    \A n \in Nodes : \A p \in DOMAIN peers[n] \cap Nodes :
        peers[n][p].last_addr = MainAddr(p)

\* C36: no session is registered as connected for an inbound stream on
\* which the reader task has already seen EOF or a read error: whenever
\* has_tcp_connection(p) holds for a session the reader task registered, that
\* task is still reading its stream.
C36_NoSessionOnClosedStream ==
    \A p \in DOMAIN conns["A"] :
        (has_tcp_connection("A", p) /\ conns["A"][p].side = "srv") =>
            streams[conns["A"][p].stream].rpc = "read"

\* C40: once the reader task of an inbound stream has taken a TcpHandshake,
\* the stream's peer_id stays the `from` of that first handshake whatever
\* lines follow, a later TcpHandshake with another `from` included; and the
\* entry the task removes when it ends is the one under that id.
C40_FirstHandshakeBinds ==
    [][\A sid \in DOMAIN streams :
          streams[sid].rhs =>
              /\ streams'[sid].rhs
              /\ streams'[sid].rpeer = streams[sid].rpeer
              /\ (streams[sid].rpc = "remove" /\ streams'[sid].rpc = "done") =>
                    conns'["A"] = Remove(conns["A"], streams[sid].rpeer[1])]_vars

\* Host C wrote a handshake under B's id, then one under its own, then a
\* DirectBlock, and closed: every line has been read, the DirectBlock was
\* forwarded, and the task has ended with the stream still bound to B.
C40_Witness ==
    /\ streams # <<>>
    /\ streams[1].sent = <<TcpHandshake("B", "x", "pkX"), TcpHandshake("C", "x", "pkX"),
                           DirectBlock("B", "A", "hello")>>
    /\ streams[1].wire = <<>>
    /\ streams[1].rpc = "done"
    /\ streams[1].rpeer = Some("B")
    /\ DirectBlock("B", "A", "hello") \in inbox["A"]

\* A session for p is inserted into the connection table of n in this step.
Inserted(n, p) ==
    /\ p \in DOMAIN conns'[n]
    /\ p \notin DOMAIN conns[n] \/ conns'[n][p].stream # conns[n][p].stream

\* C32: a session for p is inserted into the connection table only when p
\* has an entry in the peer registry.
C32_UpgradedOnlyFromDiscovered ==
    [][\A p \in Ids : Inserted("A", p) => p \in DOMAIN peers'["A"]]_vars

\* The end of stream sid that the session c holds is open.
HandleOpen(strs, c) ==
    IF c.side = "cli" THEN strs[c.stream].cliOpen ELSE strs[c.stream].srvOpen

\* C37: the connection table holds one session per peer id (it is a map),
\* and an insert for an id that has a session already, as when the connect
\* of request_tcp_connection and the connect after a TcpConnectionResponse
\* both succeed, puts the later session in its place and drops the earlier
\* one, which closes the earlier stream.
C37_LaterInsertReplaces ==
    [][\A p \in Ids :
          (Inserted("A", p) /\ p \in DOMAIN conns["A"]) =>
              /\ conns'["A"][p].side = "cli" =>
                    /\ Len(streams') = Len(streams) + 1
                    /\ conns'["A"][p].stream = Len(streams')
              /\ ~HandleOpen(streams', conns["A"][p])]_vars

\* During one send_message call both connects to B succeeded, the one of
\* recv_loop after the accepted response and the one of
\* request_tcp_connection: the table holds the session on stream 2, the later
\* one, and A's end of stream 1 is closed.
C37_Witness ==
    /\ Len(streams) = 2
    /\ streams[1].cli = "A" /\ streams[2].cli = "A"
    /\ call["A"].pc # "idle" /\ call["A"].upgrade = "connected"
    /\ has_tcp_connection("A", "B")
    /\ conns["A"]["B"].stream = 2
    /\ ~streams[1].cliOpen /\ streams[2].cliOpen

\* C35: the reader task of an inbound stream, when it ends, touches only a
\* session registered for its own stream: a session of the same peer on
\* another stream is in the table after the step as it was before.
C35_ReaderRemovesOwnSessionOnly ==
    [][\A sid \in DOMAIN streams :
          (streams[sid].rpc \in {"store", "remove"}
              /\ streams'[sid].rpc # streams[sid].rpc) =>
              \A p \in DOMAIN conns["A"] :
                  conns["A"][p].stream # sid =>
                      /\ p \in DOMAIN conns'["A"]
                      /\ conns'["A"][p] = conns["A"][p]]_vars


\* The registry holds the same entries, none refreshed or rewritten: only
\* time has passed over them.
OnlyAged(old, new) ==
    /\ DOMAIN new = DOMAIN old
    /\ \A id \in DOMAIN old :
          /\ new[id].age >= old[id].age
          /\ [new[id] EXCEPT !.age = old[id].age] = old[id]

RecvLoopBlocked ==
    /\ chan.task["recv_loop"].pc = "forward"
    /\ Len(chan.queue) = ChanCap

\* C31: when the bounded event channel is full, recv_loop waits in tx.send
\* with the message it holds instead of dropping it; as long as it waits it
\* takes no further datagram: no upsert, no reply, no stale sweep; it leaves
\* the send only by putting that message into the channel, which happens
\* once the consumer has taken messages.
C31_BlocksOnFullChannel ==
    /\ [][chan.task["recv_loop"].pc = "forward" =>
            \/ /\ chan'.task["recv_loop"] = chan.task["recv_loop"]
               /\ OnlyAged(peers["A"], peers'["A"])
               /\ out' = <<>>
            \/ /\ Len(chan.queue) < ChanCap
               /\ chan'.queue = Append(chan.queue, chan.task["recv_loop"].cur[1])
               /\ chan'.task["recv_loop"].pc = "sweep"
               /\ peers' = peers
               /\ out' = <<>>]_vars
    /\ RecvLoopBlocked ~> chan.task["recv_loop"].pc = "sweep"

\* recv_loop waits with a chat message on a full channel while a stale entry
\* is in the registry and the reader task waits too.
C31_Witness ==
    /\ chan # <<>>
    /\ RecvLoopBlocked
    /\ chan.task["recv_loop"].cur = Some(DirectBlock("B", "A", "hello"))
    /\ Parked(chan, "recv_loop")
    /\ \E id \in DOMAIN peers["A"] : peers["A"][id].age > PEER_STALE_SECS

\* The nestings the code performs: <<a, b>> when b is taken with a held.
LockOrder == {<<"peers", "alias">>, <<"peers", "conns">>, <<"conns", "stream">>}

\* Every pair of guards a task holds together was taken in the one order.
LocksInOrder ==
    \A t \in LockTasks : \A i, j \in 1..Len(LockHeld(t)) :
        i < j => <<LockHeld(t)[i].lock, LockHeld(t)[j].lock>> \in LockOrder

\* C34: whatever the interleaving of send_message, request_tcp_connection,
\* list_peers, set_alias, update_peer_connection_type, recv_loop and a
\* reader task, the locks a task holds together were taken registry before
\* alias, registry before session table, session table before stream, and
\* as long as a task is unfinished some task can go on.
C34_NoDeadlockOneOrder ==
    lk # <<>> =>
        /\ LocksInOrder
        /\ (\E t \in LockTasks : ~LockDone(t)) => \E t \in LockTasks : LockCanStep(t)

\* request_tcp_connection holds the registry and waits for the session table
\* while send_message writes under the read guard and the stream lock, and
\* update_peer_connection_type waits for the registry.
C34_Witness ==
    /\ lk # <<>>
    /\ Holds("request_tcp_connection", "peers", "x")
    /\ WaitsFor("request_tcp_connection", "conns", "x")
    /\ Holds("send_message", "conns", "r")
    /\ Holds("send_message", "stream", "x")
    /\ WaitsFor("update_peer_connection_type", "peers", "x")
    /\ WaitsFor("recv_loop", "peers", "x")

====
